---- MODULE Spec2Model ----
(***************************************************************************)
(* Clinic management backend: accounts, appointments, consultations,       *)
(* prescriptions and the token, role and ownership checks in front of      *)
(* them.  Every HTTP                                                       *)
(* request is a small process: it is authenticated (token, then            *)
(* User.findById), authorized by the route, and then runs its controller;  *)
(* each `await` on the database is one atomic step, so requests in         *)
(* different slots interleave at the awaits.                               *)
(*                                                                         *)
(* Pass-through fields (reason, notes, treatment, a prescription's status, *)
(* a medication's duration and instructions) take part in no decision of   *)
(* the controllers and are left out of the records; every medication line  *)
(* is sent with its medicationId, which is left out as well.               *)
(***************************************************************************)
EXTENDS Integers, FiniteSets, Sequences, TLC

\* ---------------------------------------------------------------- bounds
MaxAppt == 2      \* appointment ids ever allocated
MaxCons == 2      \* consultation ids ever allocated
MaxConsAppt == 1  \* appointments the consultation specification creates
MaxPresc == 2     \* prescription ids ever allocated

\* ------------------------------------------------------------- universes
None  == "none"   \* undefined / null / absent string-valued field
NoId  == 0        \* absent numeric id
NoDoc == [patientId |-> None, doctorId |-> None, dateTime |-> 0, status |-> None]
NoCons == [appointmentId |-> NoId, patientId |-> None, doctorId |-> None, diagnosis |-> None]

Roles      == {"admin", "doctor", "patient", "secretary"}
UserIds    == {"uAdmin", "uSec", "uDoc", "uPat1", "uPat2"}
PatientIds == {"P1", "P2"}
DoctorIds  == {"D1"}
\* The seeded accounts and profiles above, and the ones one registration adds:
\* account uNew, with Patient profile P3 or Doctor profile D2.
Accounts   == UserIds \cup {"uNew"}
ProfileIds == PatientIds \cup {"P3"}
ApptIds    == 1..MaxAppt
ConsIds    == 1..MaxCons
ConsApptIds == 1..MaxConsAppt
Statuses   == {"pending", "confirmed", "cancelled", "completed"}
Diagnoses  == {"dxA", "dxB"}
PrescIds   == 1..MaxPresc
NoPresc == [consultationId |-> NoId, patientId |-> None, doctorId |-> None, medications |-> <<>>]

\* What a request carries in its Authorization header: a token signed by this
\* server and not expired, no header, a header without the "Bearer " prefix,
\* a bearer string that is no JWT, a JWT signed with another key, a JWT of
\* this server past its expiry.
Credentials == {"valid", "absent", "notBearer", "garbage", "badSignature", "expired"}

Slots      == {1, 2}

VARIABLES
  users,          \* User collection: id -> role, None once deleted
  patients,       \* Patient collection: id -> userId, None when absent
  doctors,        \* Doctor collection: the ids present
  appointments,   \* Appointment collection: id -> document, NoDoc when absent
  nextAppt,       \* next fresh appointment id
  consultations,  \* Consultation collection: id -> document, NoCons when absent
  nextCons,       \* next fresh consultation id
  prescriptions,  \* Prescription collection: id -> document, NoPresc when absent
  nextPresc,      \* next fresh prescription id
  userStatus,     \* User.status: account -> active / inactive, None when absent
  tokens,         \* the payloads { id, role } of the tokens issued so far
  secretaries,    \* Secretary collection: the accounts that have a profile
  reqs            \* requests in flight or answered, one per slot

vars == <<users, patients, doctors, appointments, nextAppt, consultations, nextCons,
          prescriptions, nextPresc, userStatus, tokens, secretaries, reqs>>

stores == <<users, patients, doctors, appointments, nextAppt, consultations, nextCons,
            prescriptions, nextPresc, userStatus, tokens, secretaries>>

\* ------------------------------------------------------------- requests
EmptyBody == [patientId |-> None, doctorId |-> None, dateTime |-> 0, status |-> None,
              appointmentId |-> NoId, diagnosis |-> None,
              consultationId |-> NoId, hasMedications |-> FALSE, medications |-> <<>>,
              email |-> None, password |-> None, role |-> None]

\* The user document a handler holds: of login's findOne, of deleteUser's
\* findByIdAndDelete.
NoUser == [role |-> None, status |-> None]

Idle == [op |-> None, uid |-> None, id |-> NoId, target |-> None, body |-> EmptyBody,
         pc |-> "idle", role |-> None, own |-> None, snap |-> NoDoc,
         code |-> 0, msg |-> None, data |-> {}, cred |-> None, user |-> NoUser]

\* The state after the seed script: one account per staff role, two patients,
\* every patient and doctor account with its profile; no clinical records.
Init ==
  /\ users = [u \in Accounts |->
                CASE u = "uAdmin" -> "admin"
                  [] u = "uSec"   -> "secretary"
                  [] u = "uDoc"   -> "doctor"
                  [] u = "uNew"   -> None
                  [] OTHER        -> "patient"]
  /\ userStatus = [u \in Accounts |-> IF u = "uNew" THEN None ELSE "active"]
  /\ tokens = {}
  /\ secretaries = {"uSec"}
  /\ patients = [p \in ProfileIds |->
                   CASE p = "P1" -> "uPat1" [] p = "P2" -> "uPat2" [] OTHER -> None]
  /\ doctors = DoctorIds
  /\ appointments = [a \in ApptIds |-> NoDoc]
  /\ nextAppt = 1
  /\ consultations = [c \in ConsIds |-> NoCons]
  /\ nextCons = 1
  /\ prescriptions = [k \in PrescIds |-> NoPresc]
  /\ nextPresc = 1
  /\ reqs = [r \in Slots |-> Idle]

\* ------------------------------------------------------ storage helpers
\* Patient.findOne({ userId }): the profile of an account, None when it has none.
FindPatientByUser(u) ==
  IF \E p \in ProfileIds : patients[p] = u
    THEN CHOOSE p \in ProfileIds : patients[p] = u
    ELSE None

\* Patient.findById / Doctor.findById as existence tests.
PatientExists(p) == p \in ProfileIds /\ patients[p] # None
DoctorExists(d)  == d \in doctors
ApptExists(a)    == a \in ApptIds /\ appointments[a] # NoDoc
ConsExists(c)    == c \in ConsIds /\ consultations[c] # NoCons

\* populate() leaves null where the referenced profile is gone, and the
\* formatter then reads `._id` of it: a TypeError.
FormatThrows(doc) == ~PatientExists(doc.patientId) \/ ~DoctorExists(doc.doctorId)

\* The formatted appointment of a response.
Formatted(a, doc) == [id |-> a, patientId |-> doc.patientId, status |-> doc.status]

\* Mutant of StatusValid: the status field without its enum.
StatusValid_NoEnum(s) == TRUE

\* Mutant of StatusValid: an enum that only knows pending.
StatusValid_PendingOnly(s) == s = "pending"

\* Schema validation of the status enum (create, and update under runValidators).
StatusValid(s) == s \in Statuses

\* The error middleware behind asyncHandler's catch(next): kind of failure -> status.
errorHandler(kind) ==
  CASE kind = "ValidationError" -> 400
    [] kind = "DuplicateKey"    -> 409
    [] OTHER                    -> 500

\* ------------------------------------------------------------- routing
\* The by-doctor and by-patient reads as the packages/backend router registers
\* them: "Public read routes", behind authenticate only.
PkgReadOps == {"pkgGetAppointmentsByDoctor", "pkgGetAppointmentsByPatient"}

PkgRouteRoles(op) == Roles

\* Mutant of RouteRoles: doctor added to the roles of the PUT and DELETE routes.
RouteRoles_DoctorWrites(op) ==
  CASE op = "getAllAppointments"  -> Roles
    [] op = "getAppointmentById"  -> Roles
    [] op = "createAppointment"   -> {"admin", "secretary", "patient"}
    [] op = "updateAppointment"   -> {"admin", "secretary", "doctor"}
    [] op = "deleteAppointment"   -> {"admin", "secretary", "doctor"}
    [] op = "createConsultation"  -> {"doctor", "admin"}
    [] op = "updateConsultation"  -> {"doctor", "admin"}
    [] op = "deleteConsultation"  -> {"admin"}
    [] op = "getAllConsultations" -> Roles
    [] op = "getConsultationById" -> Roles
    [] op = "getAllPrescriptions" -> Roles
    [] op = "getPrescriptionById" -> Roles
    [] op = "createPrescription"  -> {"doctor", "admin"}
    [] op = "updatePrescription"  -> {"doctor", "admin"}
    [] op = "deletePrescription"  -> {"admin"}
    [] op = "getAppointmentsByDoctor"  -> {"admin", "secretary", "doctor"}
    [] op = "getAppointmentsByPatient" -> {"admin", "secretary"}
    [] op \in PkgReadOps          -> PkgRouteRoles(op)
    [] op = "deletePatient"       -> {"admin", "secretary"}
    [] op = "deleteDoctor"        -> {"admin"}
    [] op = "updateUser"          -> {"admin"}
    [] op = "deleteUser"          -> {"admin"}
    [] op = "refreshToken"        -> Roles
    [] OTHER                      -> {}

\* Mutant of RouteRoles: the consultation and prescription write routes without
\* their authorize(...).
RouteRoles_OpenRecords(op) ==
  CASE op = "getAllAppointments"  -> Roles
    [] op = "getAppointmentById"  -> Roles
    [] op = "createAppointment"   -> {"admin", "secretary", "patient"}
    [] op = "updateAppointment"   -> {"admin", "secretary"}
    [] op = "deleteAppointment"   -> {"admin", "secretary"}
    [] op = "createConsultation"  -> Roles
    [] op = "updateConsultation"  -> Roles
    [] op = "deleteConsultation"  -> Roles
    [] op = "getAllConsultations" -> Roles
    [] op = "getConsultationById" -> Roles
    [] op = "getAllPrescriptions" -> Roles
    [] op = "getPrescriptionById" -> Roles
    [] op = "createPrescription"  -> Roles
    [] op = "updatePrescription"  -> Roles
    [] op = "deletePrescription"  -> Roles
    [] op = "getAppointmentsByDoctor"  -> {"admin", "secretary", "doctor"}
    [] op = "getAppointmentsByPatient" -> {"admin", "secretary"}
    [] op \in PkgReadOps          -> PkgRouteRoles(op)
    [] op = "deletePatient"       -> {"admin", "secretary"}
    [] op = "deleteDoctor"        -> {"admin"}
    [] op = "updateUser"          -> {"admin"}
    [] op = "deleteUser"          -> {"admin"}
    [] op = "refreshToken"        -> Roles
    [] OTHER                      -> {}

\* authorize(...roles) of each route; routes without authorize admit every role.
RouteRoles(op) ==
  CASE op = "getAllAppointments"  -> Roles
    [] op = "getAppointmentById"  -> Roles
    [] op = "createAppointment"   -> {"admin", "secretary", "patient"}
    [] op = "updateAppointment"   -> {"admin", "secretary"}
    [] op = "deleteAppointment"   -> {"admin", "secretary"}
    [] op = "createConsultation"  -> {"doctor", "admin"}
    [] op = "updateConsultation"  -> {"doctor", "admin"}
    [] op = "deleteConsultation"  -> {"admin"}
    [] op = "getAllConsultations" -> Roles
    [] op = "getConsultationById" -> Roles
    [] op = "getAllPrescriptions" -> Roles
    [] op = "getPrescriptionById" -> Roles
    [] op = "createPrescription"  -> {"doctor", "admin"}
    [] op = "updatePrescription"  -> {"doctor", "admin"}
    [] op = "deletePrescription"  -> {"admin"}
    [] op = "getAppointmentsByDoctor"  -> {"admin", "secretary", "doctor"}
    [] op = "getAppointmentsByPatient" -> {"admin", "secretary"}
    [] op \in PkgReadOps          -> PkgRouteRoles(op)
    [] op = "deletePatient"       -> {"admin", "secretary"}
    [] op = "deleteDoctor"        -> {"admin"}
    [] op = "updateUser"          -> {"admin"}
    [] op = "deleteUser"          -> {"admin"}
    [] op = "refreshToken"        -> Roles
    [] OTHER                      -> {}

authorize(op, role) == role \in RouteRoles(op)

\* A request answered: status code, message tag, payload; locals dropped.
Answer(q, code, msg, data) ==
  [q EXCEPT !.pc = "done", !.code = code, !.msg = msg, !.data = data,
            !.own = None, !.snap = NoDoc, !.user = NoUser]

Goto(q, pc) == [q EXCEPT !.pc = pc]

Busy(r) == reqs[r].pc \notin {"idle", "done"}

\* The router hands a request for route op to a free slot; its middleware
\* chain has not run yet.
StartRequest(r, op) ==
  /\ ~Busy(r)
  /\ reqs' = [reqs EXCEPT ![r] = [Idle EXCEPT !.op = op, !.pc = "auth"]]
  /\ UNCHANGED stores

\* Mutant of PatientsCannotModify: the controllers' own role test left out.
PatientsCannotModify_Off(role) == FALSE

\* updateAppointment and deleteAppointment begin with
\* `if (req.user.role === 'patient')` and answer 403.
PatientsCannotModify(role) == role = "patient"

\* The synchronous start of each controller, up to its first await.
Enter(q, role, body) ==
  LET e == [q EXCEPT !.role = role, !.body = body] IN
  CASE q.op = "getAllAppointments" ->
         IF role = "patient" THEN Goto(e, "list_own") ELSE Goto(e, "list_find")
    [] q.op = "getAppointmentById" -> Goto(e, "get_find")
    [] q.op = "createAppointment" ->
         IF body.patientId = None \/ body.doctorId = None \/ body.dateTime = 0
           THEN Answer(e, 400, "required", {})
           ELSE IF role = "patient" THEN Goto(e, "create_own") ELSE Goto(e, "create_verify")
    [] q.op = "updateAppointment" ->
         IF PatientsCannotModify(role) THEN Answer(e, 403, "patients cannot modify", {})
                             ELSE Goto(e, "update_find")
    [] q.op = "deleteAppointment" ->
         IF PatientsCannotModify(role) THEN Answer(e, 403, "patients cannot delete", {})
                             ELSE Goto(e, "delete_exec")
    [] q.op = "createConsultation" ->
         IF body.appointmentId = NoId \/ body.patientId = None \/ body.doctorId = None
              \/ body.diagnosis = None
           THEN Answer(e, 400, "required", {})
           ELSE Goto(e, "ccons_find")
    [] q.op = "updateConsultation" -> Goto(e, "ucons_exec")
    [] q.op = "deleteConsultation" -> Goto(e, "dcons_exec")
    [] q.op = "getAllConsultations" -> Goto(e, "lcons_find")
    [] q.op = "getConsultationById" -> Goto(e, "gcons_find")
    [] q.op = "getAllPrescriptions" -> Goto(e, "lpresc_find")
    [] q.op = "getPrescriptionById" -> Goto(e, "gpresc_find")
    [] q.op = "createPrescription" ->
         IF body.consultationId = NoId \/ body.patientId = None \/ body.doctorId = None
              \/ ~body.hasMedications \/ Len(body.medications) = 0
           THEN Answer(e, 400, "required", {})
           ELSE Goto(e, "cpresc_insert")
    [] q.op = "updatePrescription" -> Goto(e, "upresc_exec")
    [] q.op = "deletePrescription" -> Goto(e, "dpresc_exec")
    [] q.op \in {"getAppointmentsByDoctor", "pkgGetAppointmentsByDoctor"} ->
         Goto(e, "bydoc_find")
    [] q.op \in {"getAppointmentsByPatient", "pkgGetAppointmentsByPatient"} ->
         Goto(e, "bypat_find")
    [] q.op = "refreshToken" -> Goto(e, "refresh_exec")
    [] q.op = "updateUser" ->
         IF body.email # None THEN Goto(e, "uuser_email") ELSE Goto(e, "uuser_exec")
    [] q.op = "deleteUser" -> Goto(e, "duser_exec")
    [] q.op = "deletePatient" -> Goto(e, "dpat_exec")
    [] q.op = "deleteDoctor" -> Goto(e, "ddoc_exec")
    [] OTHER -> Answer(e, 404, "no route", {})

\* `authHeader && authHeader.startsWith('Bearer ')`.
HeaderOk(cred) == cred \notin {"absent", "notBearer"}

\* Mutant of VerifyThrows: jwt.verify with ignoreExpiration.
VerifyThrows_IgnoresExpiry(cred) == cred \in {"garbage", "badSignature"}

\* verifyToken: jwt.verify throws on a malformed token, a wrong signature and
\* an expired token; each is rethrown as Error('Invalid token').
VerifyThrows(cred) == cred \in {"garbage", "badSignature", "expired"}

\* authenticate up to its await: the header test and verifyToken.  A request
\* that fails either is answered 401 there; one that passes goes on to
\* User.findById (Authenticate).
CheckToken(r, cred) ==
  /\ reqs[r].pc = "auth"
  /\ reqs[r].cred = None
  /\ LET q == [reqs[r] EXCEPT !.cred = cred] IN
     reqs' = [reqs EXCEPT ![r] =
          IF ~HeaderOk(cred) THEN Answer(q, 401, "no token provided", {})
          ELSE IF VerifyThrows(cred) THEN Answer(q, 401, "invalid token", {})
          ELSE q]
  /\ UNCHANGED stores

\* Mutant of Authenticate: the role is read from the token's payload and the
\* stored user is not consulted.
Authenticate_TokenRole(r, uid, id, target, body) ==
  /\ reqs[r].pc = "auth"
  /\ LET q == [reqs[r] EXCEPT !.uid = uid, !.id = id, !.target = target]
         role == IF \E k \in tokens : k.id = uid
                   THEN (CHOOSE k \in tokens : k.id = uid).role
                   ELSE users[uid]
     IN reqs' = [reqs EXCEPT ![r] =
          IF role = None THEN Answer(q, 401, "user not found", {})
          ELSE IF ~authorize(q.op, role)
            THEN Answer([q EXCEPT !.role = role], 403, "access denied", {})
          ELSE Enter(q, role, body)]
  /\ UNCHANGED stores

\* authenticate: the token names account uid, User.findById(decoded.id) loads
\* it; then authorize; then the controller reads params (id, target) and body.
Authenticate(r, uid, id, target, body) ==
  /\ reqs[r].pc = "auth"
  /\ LET q == [reqs[r] EXCEPT !.uid = uid, !.id = id, !.target = target]
         role == users[uid]
     IN reqs' = [reqs EXCEPT ![r] =
          IF role = None THEN Answer(q, 401, "user not found", {})
          ELSE IF ~authorize(q.op, role)
            THEN Answer([q EXCEPT !.role = role], 403, "access denied", {})
          ELSE Enter(q, role, body)]
  /\ UNCHANGED stores

\* ------------------------------------------------- appointment handlers
\* Mutant of ListOwn: a missing profile is not answered 404; the query runs
\* with an undefined patientId.
ListOwn_Conflated(r) ==
  /\ reqs[r].pc = "list_own"
  /\ reqs' = [reqs EXCEPT ![r] =
       Goto([reqs[r] EXCEPT !.own = FindPatientByUser(reqs[r].uid)], "list_find")]
  /\ UNCHANGED stores

\* getAllAppointments, patient branch: Patient.findOne({ userId: caller }).
ListOwn(r) ==
  /\ reqs[r].pc = "list_own"
  /\ LET q == reqs[r]
         rec == FindPatientByUser(q.uid)
     IN reqs' = [reqs EXCEPT ![r] =
          IF rec = None THEN Answer(q, 404, "patient profile not found", {})
          ELSE Goto([q EXCEPT !.own = rec], "list_find")]
  /\ UNCHANGED stores

\* Mutant of ListMatches: query.patientId is never set.
ListMatches_NoOwner(q, a) ==
  /\ ApptExists(a)
  /\ (q.body.status # None => appointments[a].status = q.body.status)

\* The query of getAllAppointments: the caller's own patient id for a patient,
\* and the status filter when one is given.
ListMatches(q, a) ==
  /\ ApptExists(a)
  /\ (q.role = "patient" => appointments[a].patientId = q.own)
  /\ (q.body.status # None => appointments[a].status = q.body.status)

\* Appointment.find(query).populate(...) and the formatting of each hit.
ListFind(r) ==
  /\ reqs[r].pc = "list_find"
  /\ LET q == reqs[r]
         hits == {a \in ApptIds : ListMatches(q, a)}
     IN reqs' = [reqs EXCEPT ![r] =
          IF \E a \in hits : FormatThrows(appointments[a])
            THEN Answer(q, errorHandler("TypeError"), "internal", {})
            ELSE Answer(q, 200, "ok", {Formatted(a, appointments[a]) : a \in hits})]
  /\ UNCHANGED stores

\* getAppointmentsByDoctor: Appointment.find({ doctorId }).populate(...) and
\* the formatting of each hit; no role or ownership test.
ListByDoctor(r) ==
  /\ reqs[r].pc = "bydoc_find"
  /\ LET q == reqs[r]
         hits == {a \in ApptIds : ApptExists(a) /\ appointments[a].doctorId = q.target}
     IN reqs' = [reqs EXCEPT ![r] =
          IF \E a \in hits : FormatThrows(appointments[a])
            THEN Answer(q, errorHandler("TypeError"), "internal", {})
            ELSE Answer(q, 200, "ok", {Formatted(a, appointments[a]) : a \in hits})]
  /\ UNCHANGED stores

\* getAppointmentsByPatient: Appointment.find({ patientId }).populate(...) and
\* the formatting of each hit; no role or ownership test.
ListByPatient(r) ==
  /\ reqs[r].pc = "bypat_find"
  /\ LET q == reqs[r]
         hits == {a \in ApptIds : ApptExists(a) /\ appointments[a].patientId = q.target}
     IN reqs' = [reqs EXCEPT ![r] =
          IF \E a \in hits : FormatThrows(appointments[a])
            THEN Answer(q, errorHandler("TypeError"), "internal", {})
            ELSE Answer(q, 200, "ok", {Formatted(a, appointments[a]) : a \in hits})]
  /\ UNCHANGED stores

\* getAppointmentById: Appointment.findById(id).populate(...).
GetFind(r) ==
  /\ reqs[r].pc = "get_find"
  /\ LET q == reqs[r]
         doc == appointments[q.id]
     IN reqs' = [reqs EXCEPT ![r] =
          IF ~ApptExists(q.id) THEN Answer(q, 404, "appointment not found", {})
          ELSE IF q.role = "patient" THEN Goto([q EXCEPT !.snap = doc], "get_own")
          ELSE IF FormatThrows(doc) THEN Answer(q, errorHandler("TypeError"), "internal", {})
          ELSE Answer(q, 200, "ok", {Formatted(q.id, doc)})]
  /\ UNCHANGED stores

\* The ownership test of getAppointmentById: the caller's profile against the
\* appointment's populated patient.
OwnsAppointment(rec, doc) == rec # None /\ rec = doc.patientId

\* getAppointmentById, patient branch: Patient.findOne, then the ownership test
\* (inside try/catch: a null populated patient is answered 500 there).
GetOwn(r) ==
  /\ reqs[r].pc = "get_own"
  /\ LET q == reqs[r]
         doc == q.snap
         rec == FindPatientByUser(q.uid)
     IN reqs' = [reqs EXCEPT ![r] =
          IF rec = None THEN Answer(q, 403, "no permission", {})
          ELSE IF ~PatientExists(doc.patientId) THEN Answer(q, 500, "error verifying", {})
          ELSE IF ~OwnsAppointment(rec, doc) THEN Answer(q, 403, "no permission", {})
          ELSE IF FormatThrows(doc) THEN Answer(q, errorHandler("TypeError"), "internal", {})
          ELSE Answer(q, 200, "ok", {Formatted(q.id, doc)})]
  /\ UNCHANGED stores

\* Mutant of SelfBooking: the comparison with the request's patientId left out.
SelfBooking_Any(rec, patientId) == TRUE

\* "Patients can only book for themselves": the caller's profile id against the
\* request's patientId.
SelfBooking(rec, patientId) == rec = patientId

\* createAppointment, patient branch: own profile, self-booking, pending only.
CreateOwn(r) ==
  /\ reqs[r].pc = "create_own"
  /\ LET q == reqs[r]
         rec == FindPatientByUser(q.uid)
     IN reqs' = [reqs EXCEPT ![r] =
          IF rec = None THEN Answer(q, 404, "patient profile not found", {})
          ELSE IF ~SelfBooking(rec, q.body.patientId)
            THEN Answer(q, 403, "only for themselves", {})
          ELSE IF q.body.status # None /\ q.body.status # "pending"
            THEN Answer(q, 400, "must be pending", {})
          ELSE Goto(q, "create_verify")]
  /\ UNCHANGED stores

\* createAppointment: Promise.all([Patient.findById, Doctor.findById]).
CreateVerify(r) ==
  /\ reqs[r].pc = "create_verify"
  /\ LET q == reqs[r] IN
     reqs' = [reqs EXCEPT ![r] =
          IF ~PatientExists(q.body.patientId) THEN Answer(q, 404, "patient not found", {})
          ELSE IF ~DoctorExists(q.body.doctorId) THEN Answer(q, 404, "doctor not found", {})
          ELSE Goto(q, "create_insert")]
  /\ UNCHANGED stores

\* Mutant of appointmentStatus: the role is not consulted and the default is wrong.
appointmentStatus_WrongDefault(role, status) ==
  IF status # None THEN status ELSE "confirmed"

\* Mutant of appointmentStatus: the supplied status is dropped for every role.
appointmentStatus_AlwaysPending(role, status) == "pending"

\* The status createAppointment stores.
appointmentStatus(role, status) ==
  IF role = "patient" THEN "pending"
  ELSE IF status # None THEN status ELSE "pending"

\* createAppointment: Appointment.create(...) under schema validation.
CreateInsert(r) ==
  /\ reqs[r].pc = "create_insert"
  /\ LET q == reqs[r]
         st == appointmentStatus(q.role, q.body.status)
         doc == [patientId |-> q.body.patientId, doctorId |-> q.body.doctorId,
                 dateTime |-> q.body.dateTime, status |-> st]
     IN IF ~StatusValid(st)
          THEN /\ reqs' = [reqs EXCEPT ![r] =
                            Answer(q, errorHandler("ValidationError"), "validation", {})]
               /\ UNCHANGED stores
          ELSE /\ nextAppt \in ApptIds
               /\ appointments' = [appointments EXCEPT ![nextAppt] = doc]
               /\ nextAppt' = nextAppt + 1
               /\ reqs' = [reqs EXCEPT ![r] = Goto([q EXCEPT !.id = nextAppt], "create_populate")]
               /\ UNCHANGED <<userStatus, tokens, secretaries, users, patients, doctors, consultations, nextCons, prescriptions, nextPresc>>

\* createAppointment: populate the created document and format the response.
CreatePopulate(r) ==
  /\ reqs[r].pc = "create_populate"
  /\ LET q == reqs[r]
         doc == [patientId |-> q.body.patientId, doctorId |-> q.body.doctorId,
                 dateTime |-> q.body.dateTime,
                 status |-> appointmentStatus(q.role, q.body.status)]
     IN reqs' = [reqs EXCEPT ![r] =
          IF FormatThrows(doc) THEN Answer(q, errorHandler("TypeError"), "internal", {})
          ELSE Answer(q, 201, "created", {Formatted(q.id, doc)})]
  /\ UNCHANGED stores

\* The packages/backend copy of createAppointment, patient branch: a missing
\* profile and a foreign patientId are both answered 403.
PkgCreateOwn(r) ==
  /\ reqs[r].pc = "create_own"
  /\ LET q == reqs[r]
         rec == FindPatientByUser(q.uid)
     IN reqs' = [reqs EXCEPT ![r] =
          IF rec = None \/ ~SelfBooking(rec, q.body.patientId)
            THEN Answer(q, 403, "only for themselves", {})
          ELSE IF q.body.status # None /\ q.body.status # "pending"
            THEN Answer(q, 400, "must be pending", {})
          ELSE Goto(q, "create_verify")]
  /\ UNCHANGED stores

\* The packages/backend copy of createAppointment: one answer for either
\* missing reference.
PkgCreateVerify(r) ==
  /\ reqs[r].pc = "create_verify"
  /\ LET q == reqs[r] IN
     reqs' = [reqs EXCEPT ![r] =
          IF ~PatientExists(q.body.patientId) \/ ~DoctorExists(q.body.doctorId)
            THEN Answer(q, 404, "patient or doctor not found", {})
          ELSE Goto(q, "create_insert")]
  /\ UNCHANGED stores

\* updateAppointment: Appointment.findById(id), then which check comes next.
UpdateNext(q, after) ==
  IF after = "find" /\ q.body.patientId # None THEN "update_patient"
  ELSE IF after \in {"find", "patient"} /\ q.body.doctorId # None THEN "update_doctor"
  ELSE "update_exec"

UpdateFind(r) ==
  /\ reqs[r].pc = "update_find"
  /\ LET q == reqs[r] IN
     reqs' = [reqs EXCEPT ![r] =
          IF ~ApptExists(q.id) THEN Answer(q, 404, "appointment not found", {})
          ELSE Goto(q, UpdateNext(q, "find"))]
  /\ UNCHANGED stores

\* updateAppointment: Patient.findById(patientId) when a patientId is supplied.
UpdatePatient(r) ==
  /\ reqs[r].pc = "update_patient"
  /\ LET q == reqs[r] IN
     reqs' = [reqs EXCEPT ![r] =
          IF ~PatientExists(q.body.patientId) THEN Answer(q, 404, "patient not found", {})
          ELSE Goto(q, UpdateNext(q, "patient"))]
  /\ UNCHANGED stores

\* updateAppointment: Doctor.findById(doctorId) when a doctorId is supplied.
UpdateDoctor(r) ==
  /\ reqs[r].pc = "update_doctor"
  /\ LET q == reqs[r] IN
     reqs' = [reqs EXCEPT ![r] =
          IF ~DoctorExists(q.body.doctorId) THEN Answer(q, 404, "doctor not found", {})
          ELSE Goto(q, "update_exec")]
  /\ UNCHANGED stores

\* updateData applied to a stored appointment: only the supplied fields change.
ApplyUpdate(doc, body) ==
  [patientId |-> IF body.patientId # None THEN body.patientId ELSE doc.patientId,
   doctorId  |-> IF body.doctorId # None THEN body.doctorId ELSE doc.doctorId,
   dateTime  |-> IF body.dateTime # 0 THEN body.dateTime ELSE doc.dateTime,
   status    |-> IF body.status # None THEN body.status ELSE doc.status]

\* updateAppointment: findByIdAndUpdate(id, updateData, { new, runValidators })
\* then populate and format; a document deleted meanwhile comes back null.
UpdateExec(r) ==
  /\ reqs[r].pc = "update_exec"
  /\ LET q == reqs[r]
         doc == ApplyUpdate(appointments[q.id], q.body)
     IN IF q.body.status # None /\ ~StatusValid(q.body.status)
          THEN /\ reqs' = [reqs EXCEPT ![r] =
                            Answer(q, errorHandler("ValidationError"), "validation", {})]
               /\ UNCHANGED stores
        ELSE IF ~ApptExists(q.id)
          THEN /\ reqs' = [reqs EXCEPT ![r] =
                            Answer(q, errorHandler("TypeError"), "internal", {})]
               /\ UNCHANGED stores
        ELSE /\ appointments' = [appointments EXCEPT ![q.id] = doc]
             /\ reqs' = [reqs EXCEPT ![r] =
                  IF FormatThrows(doc) THEN Answer(q, errorHandler("TypeError"), "internal", {})
                  ELSE Answer(q, 200, "updated", {Formatted(q.id, doc)})]
             /\ UNCHANGED <<userStatus, tokens, secretaries, users, patients, doctors, nextAppt, consultations, nextCons, prescriptions, nextPresc>>

\* deleteAppointment: Appointment.findByIdAndDelete(id).
DeleteExec(r) ==
  /\ reqs[r].pc = "delete_exec"
  /\ LET q == reqs[r] IN
     IF ~ApptExists(q.id)
       THEN /\ reqs' = [reqs EXCEPT ![r] = Answer(q, 404, "appointment not found", {})]
            /\ UNCHANGED stores
       ELSE /\ appointments' = [appointments EXCEPT ![q.id] = NoDoc]
            /\ reqs' = [reqs EXCEPT ![r] = Answer(q, 200, "deleted", {})]
            /\ UNCHANGED <<userStatus, tokens, secretaries, users, patients, doctors, nextAppt, consultations, nextCons, prescriptions, nextPresc>>

\* ----------------------------------------------------- profile deletion
\* deletePatient: patientService.remove -> Patient.findByIdAndDelete(id).
DeletePatientExec(r) ==
  /\ reqs[r].pc = "dpat_exec"
  /\ LET q == reqs[r] IN
     IF ~PatientExists(q.target)
       THEN /\ reqs' = [reqs EXCEPT ![r] = Answer(q, 404, "patient not found", {})]
            /\ UNCHANGED stores
       ELSE /\ patients' = [patients EXCEPT ![q.target] = None]
            /\ reqs' = [reqs EXCEPT ![r] = Answer(q, 200, "deleted", {})]
            /\ UNCHANGED <<userStatus, tokens, secretaries, users, doctors, appointments, nextAppt, consultations, nextCons, prescriptions, nextPresc>>

\* deleteDoctor: Doctor.findByIdAndDelete(id).
DeleteDoctorExec(r) ==
  /\ reqs[r].pc = "ddoc_exec"
  /\ LET q == reqs[r] IN
     IF ~DoctorExists(q.target)
       THEN /\ reqs' = [reqs EXCEPT ![r] = Answer(q, 404, "doctor not found", {})]
            /\ UNCHANGED stores
       ELSE /\ doctors' = doctors \ {q.target}
            /\ reqs' = [reqs EXCEPT ![r] = Answer(q, 200, "deleted", {})]
            /\ UNCHANGED <<userStatus, tokens, secretaries, users, patients, appointments, nextAppt, consultations, nextCons, prescriptions, nextPresc>>

\* ------------------------------------------------ consultation handlers
\* Mutant of UniqueViolation: the schema without `unique: true`.
UniqueViolation_NoIndex(c, apptId) == FALSE

\* The unique index on Consultation.appointmentId: an insert or update that
\* would give consultation c an appointmentId another consultation holds is
\* rejected by the storage layer with a duplicate-key error.
UniqueViolation(c, apptId) ==
  \E d \in ConsIds : d # c /\ ConsExists(d) /\ consultations[d].appointmentId = apptId

\* populate() of a consultation's three references, then `._id` of each.
ConsFormatThrows(doc) ==
  \/ ~ApptExists(doc.appointmentId)
  \/ ~PatientExists(doc.patientId)
  \/ ~DoctorExists(doc.doctorId)

ConsFormatted(c, doc) == [id |-> c, appointmentId |-> doc.appointmentId, diagnosis |-> doc.diagnosis]

\* Mutant of CreateConsFind: the appointment is looked up but a null result is
\* not tested.
CreateConsFind_NoCheck(r) ==
  /\ reqs[r].pc = "ccons_find"
  /\ reqs' = [reqs EXCEPT ![r] = Goto(reqs[r], "ccons_insert")]
  /\ UNCHANGED stores

\* createConsultation: Appointment.findById(appointmentId).
CreateConsFind(r) ==
  /\ reqs[r].pc = "ccons_find"
  /\ LET q == reqs[r] IN
     reqs' = [reqs EXCEPT ![r] =
          IF ~ApptExists(q.body.appointmentId) THEN Answer(q, 404, "appointment not found", {})
          ELSE Goto(q, "ccons_insert")]
  /\ UNCHANGED stores

\* createConsultation: Consultation.create(...).
CreateConsInsert(r) ==
  /\ reqs[r].pc = "ccons_insert"
  /\ LET q == reqs[r]
         doc == [appointmentId |-> q.body.appointmentId, patientId |-> q.body.patientId,
                 doctorId |-> q.body.doctorId, diagnosis |-> q.body.diagnosis]
     IN IF UniqueViolation(NoId, doc.appointmentId)
          THEN /\ reqs' = [reqs EXCEPT ![r] =
                            Answer(q, errorHandler("DuplicateKey"), "duplicate", {})]
               /\ UNCHANGED stores
          ELSE /\ nextCons \in ConsIds
               /\ consultations' = [consultations EXCEPT ![nextCons] = doc]
               /\ nextCons' = nextCons + 1
               /\ reqs' = [reqs EXCEPT ![r] = Goto([q EXCEPT !.id = nextCons], "ccons_populate")]
               /\ UNCHANGED <<userStatus, tokens, secretaries, users, patients, doctors, appointments, nextAppt, prescriptions, nextPresc>>

\* createConsultation: populate the created document and format the response.
CreateConsPopulate(r) ==
  /\ reqs[r].pc = "ccons_populate"
  /\ LET q == reqs[r]
         doc == [appointmentId |-> q.body.appointmentId, patientId |-> q.body.patientId,
                 doctorId |-> q.body.doctorId, diagnosis |-> q.body.diagnosis]
     IN reqs' = [reqs EXCEPT ![r] =
          IF ConsFormatThrows(doc) THEN Answer(q, errorHandler("TypeError"), "internal", {})
          ELSE Answer(q, 201, "created", {ConsFormatted(q.id, doc)})]
  /\ UNCHANGED stores

\* updateData applied to a stored consultation: only the supplied fields change.
ApplyConsUpdate(doc, body) ==
  [appointmentId |-> IF body.appointmentId # NoId THEN body.appointmentId ELSE doc.appointmentId,
   patientId     |-> IF body.patientId # None THEN body.patientId ELSE doc.patientId,
   doctorId      |-> IF body.doctorId # None THEN body.doctorId ELSE doc.doctorId,
   diagnosis     |-> IF body.diagnosis # None THEN body.diagnosis ELSE doc.diagnosis]

\* updateConsultation: findByIdAndUpdate(id, updateData, { new, runValidators }),
\* then populate and format.
UpdateConsExec(r) ==
  /\ reqs[r].pc = "ucons_exec"
  /\ LET q == reqs[r]
         doc == ApplyConsUpdate(consultations[q.id], q.body)
     IN IF ~ConsExists(q.id)
          THEN /\ reqs' = [reqs EXCEPT ![r] = Answer(q, 404, "consultation not found", {})]
               /\ UNCHANGED stores
        ELSE IF UniqueViolation(q.id, doc.appointmentId)
          THEN /\ reqs' = [reqs EXCEPT ![r] =
                            Answer(q, errorHandler("DuplicateKey"), "duplicate", {})]
               /\ UNCHANGED stores
        ELSE /\ consultations' = [consultations EXCEPT ![q.id] = doc]
             /\ reqs' = [reqs EXCEPT ![r] =
                  IF ConsFormatThrows(doc)
                    THEN Answer(q, errorHandler("TypeError"), "internal", {})
                    ELSE Answer(q, 200, "updated", {ConsFormatted(q.id, doc)})]
             /\ UNCHANGED <<userStatus, tokens, secretaries, users, patients, doctors, appointments, nextAppt, nextCons, prescriptions, nextPresc>>

\* deleteConsultation: Consultation.findByIdAndDelete(id).
DeleteConsExec(r) ==
  /\ reqs[r].pc = "dcons_exec"
  /\ LET q == reqs[r] IN
     IF ~ConsExists(q.id)
       THEN /\ reqs' = [reqs EXCEPT ![r] = Answer(q, 404, "consultation not found", {})]
            /\ UNCHANGED stores
       ELSE /\ consultations' = [consultations EXCEPT ![q.id] = NoCons]
            /\ reqs' = [reqs EXCEPT ![r] = Answer(q, 200, "deleted", {})]
            /\ UNCHANGED <<userStatus, tokens, secretaries, users, patients, doctors, appointments, nextAppt, nextCons, prescriptions, nextPresc>>

\* getAllConsultations: find, populate, format every hit.
ListConsFind(r) ==
  /\ reqs[r].pc = "lcons_find"
  /\ LET q == reqs[r]
         hits == {c \in ConsIds : ConsExists(c)}
     IN reqs' = [reqs EXCEPT ![r] =
          IF \E c \in hits : ConsFormatThrows(consultations[c])
            THEN Answer(q, errorHandler("TypeError"), "internal", {})
            ELSE Answer(q, 200, "ok", {ConsFormatted(c, consultations[c]) : c \in hits})]
  /\ UNCHANGED stores

\* getConsultationById: findById, populate, format.
GetConsFind(r) ==
  /\ reqs[r].pc = "gcons_find"
  /\ LET q == reqs[r]
         doc == consultations[q.id]
     IN reqs' = [reqs EXCEPT ![r] =
          IF ~ConsExists(q.id) THEN Answer(q, 404, "consultation not found", {})
          ELSE IF ConsFormatThrows(doc) THEN Answer(q, errorHandler("TypeError"), "internal", {})
          ELSE Answer(q, 200, "ok", {ConsFormatted(q.id, doc)})]
  /\ UNCHANGED stores

\* ------------------------------------------------ prescription handlers
PrescExists(k) == k \in PrescIds /\ prescriptions[k] # NoPresc

\* Mutant of Trim: the String paths declared without `trim: true`.
Trim_Identity(s) == s

\* `trim: true` of a String path, over the strings the requests carry.
Trim(s) ==
  CASE s = " "     -> ""
    [] s = " 5mg " -> "5mg"
    [] OTHER       -> s

\* A request's medication line cast to prescriptionMedicationSchema.
CastMedication(m) ==
  [medicationName |-> Trim(m.medicationName), dosage |-> Trim(m.dosage),
   frequency |-> Trim(m.frequency)]

CastMedications(list) == [i \in 1..Len(list) |-> CastMedication(list[i])]

\* `required` of a String path: present and not empty.
RequiredString(s) == s # None /\ s # ""

\* Validation of one cast medication line.
MedicationValid(m) ==
  /\ RequiredString(m.medicationName)
  /\ RequiredString(m.dosage)
  /\ RequiredString(m.frequency)

\* Mutant of MedicationsValid: the path without its `arr.length > 0` validator.
MedicationsValid_NoLength(list) ==
  \A i \in 1..Len(list) : MedicationValid(list[i])

\* Validation of a cast medications array: the `arr.length > 0` validator of
\* the path, and every line.
MedicationsValid(list) ==
  /\ Len(list) > 0
  /\ \A i \in 1..Len(list) : MedicationValid(list[i])

\* What the answer to a rejected medications array names: the first line that
\* fails validation, 0 when no line does (the array itself is empty).
FirstInvalid(list) ==
  IF \E i \in 1..Len(list) : ~MedicationValid(list[i])
    THEN CHOOSE i \in 1..Len(list) :
           ~MedicationValid(list[i]) /\ \A j \in 1..(i - 1) : MedicationValid(list[j])
    ELSE 0

\* The answer to a medications array that fails validation: the validation
\* error reaches the error middleware through asyncHandler's catch.
ValidationAnswer(q, meds) ==
  Answer(q, errorHandler("ValidationError"), "validation", {[entry |-> FirstInvalid(meds)]})

\* formatPrescription: the defensive formatter; a reference that does not
\* populate is reported as null.
PrescFormatted(k, doc) ==
  [id |-> k,
   consultationId |-> IF ConsExists(doc.consultationId) THEN doc.consultationId ELSE NoId,
   medications |-> doc.medications]

\* getAllPrescriptions.
ListPrescFind(r) ==
  /\ reqs[r].pc = "lpresc_find"
  /\ reqs' = [reqs EXCEPT ![r] =
       Answer(reqs[r], 200, "ok",
              {PrescFormatted(k, prescriptions[k]) : k \in {j \in PrescIds : PrescExists(j)}})]
  /\ UNCHANGED stores

\* getPrescriptionById.
GetPrescFind(r) ==
  /\ reqs[r].pc = "gpresc_find"
  /\ LET q == reqs[r] IN
     reqs' = [reqs EXCEPT ![r] =
          IF ~PrescExists(q.id) THEN Answer(q, 404, "prescription not found", {})
          ELSE Answer(q, 200, "ok", {PrescFormatted(q.id, prescriptions[q.id])})]
  /\ UNCHANGED stores

\* createPrescription: Prescription.create(...) under schema validation; the
\* referenced consultation is not looked up.
CreatePrescInsert(r) ==
  /\ reqs[r].pc = "cpresc_insert"
  /\ LET q == reqs[r]
         meds == CastMedications(q.body.medications)
         doc == [consultationId |-> q.body.consultationId, patientId |-> q.body.patientId,
                 doctorId |-> q.body.doctorId, medications |-> meds]
     IN IF ~MedicationsValid(meds)
          THEN /\ reqs' = [reqs EXCEPT ![r] = ValidationAnswer(q, meds)]
               /\ UNCHANGED stores
          ELSE /\ nextPresc \in PrescIds
               /\ prescriptions' = [prescriptions EXCEPT ![nextPresc] = doc]
               /\ nextPresc' = nextPresc + 1
               /\ reqs' = [reqs EXCEPT ![r] = Goto([q EXCEPT !.id = nextPresc], "cpresc_populate")]
               /\ UNCHANGED <<userStatus, tokens, secretaries, users, patients, doctors, appointments, nextAppt,
                              consultations, nextCons>>

\* createPrescription: populate the created document and format the response.
CreatePrescPopulate(r) ==
  /\ reqs[r].pc = "cpresc_populate"
  /\ LET q == reqs[r] IN
     reqs' = [reqs EXCEPT ![r] =
          Answer(q, 201, "created", {PrescFormatted(q.id, prescriptions[q.id])})]
  /\ UNCHANGED stores

\* Mutant of ApplyPrescUpdate: the supplied lines are appended to the stored
\* ones ($push) instead of replacing them.
ApplyPrescUpdate_Merge(doc, body) ==
  [consultationId |-> IF body.consultationId # NoId THEN body.consultationId
                                                     ELSE doc.consultationId,
   patientId |-> IF body.patientId # None THEN body.patientId ELSE doc.patientId,
   doctorId  |-> IF body.doctorId # None THEN body.doctorId ELSE doc.doctorId,
   medications |-> IF body.hasMedications
                     THEN doc.medications \o CastMedications(body.medications)
                     ELSE doc.medications]

\* updateData applied to a stored prescription: a supplied medications array
\* replaces the stored one.
ApplyPrescUpdate(doc, body) ==
  [consultationId |-> IF body.consultationId # NoId THEN body.consultationId
                                                     ELSE doc.consultationId,
   patientId |-> IF body.patientId # None THEN body.patientId ELSE doc.patientId,
   doctorId  |-> IF body.doctorId # None THEN body.doctorId ELSE doc.doctorId,
   medications |-> IF body.hasMedications THEN CastMedications(body.medications)
                                          ELSE doc.medications]

\* updatePrescription: findByIdAndUpdate(id, updateData, { new, runValidators });
\* the validators of the supplied paths run before the document is looked up.
UpdatePrescExec(r) ==
  /\ reqs[r].pc = "upresc_exec"
  /\ LET q == reqs[r]
         meds == CastMedications(q.body.medications)
     IN IF q.body.hasMedications /\ ~MedicationsValid(meds)
          THEN /\ reqs' = [reqs EXCEPT ![r] = ValidationAnswer(q, meds)]
               /\ UNCHANGED stores
        ELSE IF ~PrescExists(q.id)
          THEN /\ reqs' = [reqs EXCEPT ![r] = Answer(q, 404, "prescription not found", {})]
               /\ UNCHANGED stores
        ELSE LET doc == ApplyPrescUpdate(prescriptions[q.id], q.body) IN
             /\ prescriptions' = [prescriptions EXCEPT ![q.id] = doc]
             /\ reqs' = [reqs EXCEPT ![r] =
                  Answer(q, 200, "updated", {PrescFormatted(q.id, doc)})]
             /\ UNCHANGED <<userStatus, tokens, secretaries, users, patients, doctors, appointments, nextAppt,
                            consultations, nextCons, nextPresc>>

\* deletePrescription: Prescription.findByIdAndDelete(id).
DeletePrescExec(r) ==
  /\ reqs[r].pc = "dpresc_exec"
  /\ LET q == reqs[r] IN
     IF ~PrescExists(q.id)
       THEN /\ reqs' = [reqs EXCEPT ![r] = Answer(q, 404, "prescription not found", {})]
            /\ UNCHANGED stores
       ELSE /\ prescriptions' = [prescriptions EXCEPT ![q.id] = NoPresc]
            /\ reqs' = [reqs EXCEPT ![r] = Answer(q, 200, "deleted", {})]
            /\ UNCHANGED <<userStatus, tokens, secretaries, users, patients, doctors, appointments, nextAppt,
                           consultations, nextCons, nextPresc>>

\* ------------------------------------------------------- auth handlers
\* An account id stands for the account's email and its _id at once; the
\* specifications never register the email of a deleted account again.
\* The routes registered without authenticate.
PublicOps == {"register", "login"}

\* user.matchPassword: every account's password is "good".
matchPassword(password) == password = "good"

\* `role = 'patient'` in register's destructuring: the default of an absent role.
RegisterRole(body) == IF body.role = None THEN "patient" ELSE body.role

\* generateToken(userId, role): the payload of the signed token.
generateToken(uid, role) == [id |-> uid, role |-> role]

\* The synchronous start of login and register: the body tests before the
\* first await.
EnterPublic(r, body) ==
  /\ reqs[r].pc = "auth"
  /\ reqs[r].op \in PublicOps
  /\ LET e == [reqs[r] EXCEPT !.body = body] IN
     reqs' = [reqs EXCEPT ![r] =
          IF body.email = None \/ body.password = None
            THEN Answer(e, 400, "required", {})
          ELSE IF e.op = "register" /\ body.password = "short"
            THEN Answer(e, 400, "password too short", {})
          ELSE Goto(e, IF e.op = "register" THEN "reg_find" ELSE "login_find")]
  /\ UNCHANGED stores

\* register: User.findOne({ email }).
RegFind(r) ==
  /\ reqs[r].pc = "reg_find"
  /\ LET q == reqs[r] IN
     reqs' = [reqs EXCEPT ![r] =
          IF users[q.body.email] # None THEN Answer(q, 409, "email already registered", {})
          ELSE Goto(q, "reg_create")]
  /\ UNCHANGED stores

\* register: User.create({ ..., role, status: 'active' }) under the role enum
\* and the unique email index.
RegCreate(r) ==
  /\ reqs[r].pc = "reg_create"
  /\ LET q == reqs[r]
         u == q.body.email
         role == RegisterRole(q.body)
     IN IF role \notin Roles
          THEN /\ reqs' = [reqs EXCEPT ![r] =
                            Answer(q, errorHandler("ValidationError"), "validation", {})]
               /\ UNCHANGED stores
        ELSE IF users[u] # None
          THEN /\ reqs' = [reqs EXCEPT ![r] =
                            Answer(q, errorHandler("DuplicateKey"), "duplicate", {})]
               /\ UNCHANGED stores
        ELSE /\ users' = [users EXCEPT ![u] = role]
             /\ userStatus' = [userStatus EXCEPT ![u] = "active"]
             /\ reqs' = [reqs EXCEPT ![r] =
                  Goto([q EXCEPT !.uid = u, !.user = [role |-> role, status |-> "active"]],
                       "reg_profile")]
             /\ UNCHANGED <<patients, doctors, appointments, nextAppt, consultations, nextCons,
                            prescriptions, nextPresc, tokens, secretaries>>

\* register: the role-specific profile, then the token and the 201.
RegProfile(r) ==
  /\ reqs[r].pc = "reg_profile"
  /\ LET q == reqs[r]
         role == q.user.role
     IN /\ patients' = IF role = "patient" THEN [patients EXCEPT !["P3"] = q.uid] ELSE patients
        /\ doctors' = IF role = "doctor" THEN doctors \cup {"D2"} ELSE doctors
        /\ secretaries' = IF role = "secretary" THEN secretaries \cup {q.uid} ELSE secretaries
        /\ tokens' = tokens \cup {generateToken(q.uid, role)}
        /\ reqs' = [reqs EXCEPT ![r] =
             Answer(q, 201, "registered", {generateToken(q.uid, role)})]
  /\ UNCHANGED <<users, userStatus, appointments, nextAppt, consultations, nextCons,
                 prescriptions, nextPresc>>

\* login: User.findOne({ email }).select('+password').
LoginFind(r) ==
  /\ reqs[r].pc = "login_find"
  /\ LET q == reqs[r]
         u == q.body.email
     IN reqs' = [reqs EXCEPT ![r] =
          IF users[u] = None THEN Answer(q, 401, "invalid email or password", {})
          ELSE Goto([q EXCEPT !.uid = u,
                              !.user = [role |-> users[u], status |-> userStatus[u]]],
                    "login_match")]
  /\ UNCHANGED stores

\* login: `user.status !== 'active'` is answered 403.
LoginAllowed(user) == user.status = "active"

\* login: matchPassword, the status test, then the token and the 200.
LoginMatch(r) ==
  /\ reqs[r].pc = "login_match"
  /\ LET q == reqs[r] IN
     IF ~matchPassword(q.body.password)
       THEN /\ reqs' = [reqs EXCEPT ![r] = Answer(q, 401, "invalid email or password", {})]
            /\ UNCHANGED stores
     ELSE IF ~LoginAllowed(q.user)
       THEN /\ reqs' = [reqs EXCEPT ![r] = Answer(q, 403, "account inactive", {})]
            /\ UNCHANGED stores
     ELSE /\ tokens' = tokens \cup {generateToken(q.uid, q.user.role)}
          /\ reqs' = [reqs EXCEPT ![r] =
               Answer(q, 200, "login successful", {generateToken(q.uid, q.user.role)})]
          /\ UNCHANGED <<users, patients, doctors, appointments, nextAppt, consultations,
                         nextCons, prescriptions, nextPresc, userStatus, secretaries>>

\* refreshToken: a new token for req.user, the document authenticate loaded.
RefreshExec(r) ==
  /\ reqs[r].pc = "refresh_exec"
  /\ LET q == reqs[r] IN
     /\ tokens' = tokens \cup {generateToken(q.uid, q.role)}
     /\ reqs' = [reqs EXCEPT ![r] =
          Answer(q, 200, "token refreshed", {generateToken(q.uid, q.role)})]
  /\ UNCHANGED <<users, patients, doctors, appointments, nextAppt, consultations,
                 nextCons, prescriptions, nextPresc, userStatus, secretaries>>

\* ------------------------------------------------------- user handlers
\* updateUser: `email && email !== (await User.findById(id))?.email`.
UpdateUserEmail(r) ==
  /\ reqs[r].pc = "uuser_email"
  /\ LET q == reqs[r] IN
     reqs' = [reqs EXCEPT ![r] =
          IF users[q.target] = None \/ q.body.email # q.target
            THEN Answer(q, 400, "cannot change email", {})
            ELSE Goto(q, "uuser_exec")]
  /\ UNCHANGED stores

\* updateUser: findByIdAndUpdate(id, { role, status, ... }, { runValidators }).
UpdateUserExec(r) ==
  /\ reqs[r].pc = "uuser_exec"
  /\ LET q == reqs[r]
         t == q.target
     IN IF \/ q.body.role \notin Roles \cup {None}
           \/ q.body.status \notin {"active", "inactive", None}
          THEN /\ reqs' = [reqs EXCEPT ![r] =
                            Answer(q, errorHandler("ValidationError"), "validation", {})]
               /\ UNCHANGED stores
        ELSE IF users[t] = None
          THEN /\ reqs' = [reqs EXCEPT ![r] = Answer(q, 404, "user not found", {})]
               /\ UNCHANGED stores
        ELSE /\ users' = [users EXCEPT ![t] = IF q.body.role # None THEN q.body.role ELSE @]
             /\ userStatus' = [userStatus EXCEPT ![t] =
                                 IF q.body.status # None THEN q.body.status ELSE @]
             /\ reqs' = [reqs EXCEPT ![r] = Answer(q, 200, "updated", {})]
             /\ UNCHANGED <<patients, doctors, appointments, nextAppt, consultations, nextCons,
                            prescriptions, nextPresc, tokens, secretaries>>

\* deleteUser: User.findByIdAndDelete(id).
DeleteUserExec(r) ==
  /\ reqs[r].pc = "duser_exec"
  /\ LET q == reqs[r]
         t == q.target
     IN IF users[t] = None
          THEN /\ reqs' = [reqs EXCEPT ![r] = Answer(q, 404, "user not found", {})]
               /\ UNCHANGED stores
          ELSE /\ users' = [users EXCEPT ![t] = None]
               /\ userStatus' = [userStatus EXCEPT ![t] = None]
               /\ reqs' = [reqs EXCEPT ![r] =
                    Goto([q EXCEPT !.user = [role |-> users[t], status |-> userStatus[t]]],
                         "duser_profile")]
               /\ UNCHANGED <<patients, doctors, appointments, nextAppt, consultations,
                              nextCons, prescriptions, nextPresc, tokens, secretaries>>

\* The account of each Doctor profile (Doctor.userId).
DoctorUser(d) == IF d = "D1" THEN "uDoc" ELSE "uNew"

\* deleteUser: the role-specific profile, deleteOne({ userId }), then the 200.
DeleteUserProfile(r) ==
  /\ reqs[r].pc = "duser_profile"
  /\ LET q == reqs[r]
         t == q.target
         role == q.user.role
     IN /\ patients' = IF role = "patient"
                         THEN [p \in ProfileIds |-> IF patients[p] = t THEN None ELSE patients[p]]
                         ELSE patients
        /\ doctors' = IF role = "doctor" THEN {d \in doctors : DoctorUser(d) # t} ELSE doctors
        /\ secretaries' = IF role = "secretary" THEN secretaries \ {t} ELSE secretaries
        /\ reqs' = [reqs EXCEPT ![r] = Answer(q, 200, "deleted", {})]
  /\ UNCHANGED <<users, userStatus, tokens, appointments, nextAppt, consultations, nextCons,
                 prescriptions, nextPresc>>

\* --------------------------------------------------------------- inputs
\* A status no schema knows, to exercise validation.
StatusInputs == Statuses \cup {None, "bogus"}

\* Request bodies offered to each appointment operation.
ApptBodies(op) ==
  CASE op = "getAllAppointments" ->
         {[EmptyBody EXCEPT !.status = s] : s \in {None, "pending"}}
    [] op = "createAppointment" ->
         {[EmptyBody EXCEPT !.patientId = p, !.doctorId = d, !.dateTime = 1, !.status = s] :
            p \in PatientIds, d \in DoctorIds, s \in StatusInputs}
         \cup {[EmptyBody EXCEPT !.doctorId = "D1", !.dateTime = 1],
               [EmptyBody EXCEPT !.patientId = "P1", !.dateTime = 1],
               [EmptyBody EXCEPT !.patientId = "P1", !.doctorId = "D1"]}
    [] op = "updateAppointment" ->
         {[EmptyBody EXCEPT !.status = s] : s \in StatusInputs}
         \cup {[EmptyBody EXCEPT !.patientId = p] : p \in PatientIds}
         \cup {[EmptyBody EXCEPT !.doctorId = d] : d \in DoctorIds}
         \cup {[EmptyBody EXCEPT !.patientId = "P2", !.doctorId = "D1", !.status = "confirmed"]}
    [] OTHER -> {EmptyBody}

\* Creates not yet inserted, each of which will take a fresh id.
Pending(op) ==
  Cardinality({r \in Slots : reqs[r].op = op /\ Busy(r)
                              /\ reqs[r].pc \notin {"create_populate", "ccons_populate"}})

\* The operations of the appointment API; a create is offered while a fresh
\* appointment id is left for it.
ApptOps ==
  {"getAllAppointments", "getAppointmentById", "updateAppointment", "deleteAppointment",
   "getAppointmentsByDoctor", "getAppointmentsByPatient",
   "deletePatient", "deleteDoctor"}
  \cup (IF nextAppt + Pending("createAppointment") \in ApptIds
          THEN {"createAppointment"} ELSE {})

\* The callers, ids and targets offered to each operation: <<caller, id, target>>.
ApptParams(op) ==
  CASE op \in {"getAllAppointments", "createAppointment"} ->
         {<<u, NoId, None>> : u \in UserIds}
    [] op \in {"getAppointmentById", "updateAppointment", "deleteAppointment"} ->
         {<<u, a, None>> : u \in UserIds, a \in ApptIds}
    [] op \in {"getAppointmentsByDoctor", "pkgGetAppointmentsByDoctor"} ->
         {<<u, NoId, "D1">> : u \in {"uSec", "uDoc", "uPat1"}}
    [] op \in {"getAppointmentsByPatient", "pkgGetAppointmentsByPatient"} ->
         {<<u, NoId, "P2">> : u \in {"uSec", "uDoc", "uPat1"}}
    [] op = "deletePatient" -> {<<u, NoId, "P1">> : u \in {"uAdmin", "uDoc"}}
    [] op = "deleteDoctor" -> {<<u, NoId, d>> : u \in {"uAdmin", "uSec"}, d \in DoctorIds}
    [] OTHER -> {}

\* ------------------------------------------------------- specifications
\* The appointment API, one request at a time.
Next ==
  \/ \E op \in ApptOps : StartRequest(1, op)
  \/ \E p \in ApptParams(reqs[1].op), b \in ApptBodies(reqs[1].op) :
        Authenticate(1, p[1], p[2], p[3], b)
  \/ ListOwn(1)
  \/ ListFind(1)
  \/ GetFind(1)
  \/ GetOwn(1)
  \/ ListByDoctor(1)
  \/ ListByPatient(1)
  \/ CreateOwn(1)
  \/ CreateVerify(1)
  \/ CreateInsert(1)
  \/ CreatePopulate(1)
  \/ UpdateFind(1)
  \/ UpdatePatient(1)
  \/ UpdateDoctor(1)
  \/ UpdateExec(1)
  \/ DeleteExec(1)
  \/ DeletePatientExec(1)
  \/ DeleteDoctorExec(1)

Spec == Init /\ [][Next]_vars

\* The consultation API with the appointment operations that feed it, two
\* requests at a time: slot 1 takes any of the operations, slot 2 the
\* consultation writes that race with them.
ConsOps(r) ==
  {"updateConsultation"}
  \cup (IF r = 1 THEN {"deleteAppointment", "deleteConsultation"} ELSE {})
  \cup (IF r = 1 /\ nextAppt + Pending("createAppointment") \in ConsApptIds
          THEN {"createAppointment"} ELSE {})
  \cup (IF nextCons + Pending("createConsultation") \in ConsIds
          THEN {"createConsultation"} ELSE {})

ConsParams(op) ==
  CASE op = "createAppointment" -> {<<"uAdmin", NoId, None>>}
    [] op = "deleteAppointment" -> {<<"uSec", a, None>> : a \in ConsApptIds}
    [] op = "createConsultation" -> {<<u, NoId, None>> : u \in {"uDoc", "uSec"}}
    [] op = "updateConsultation" -> {<<"uDoc", c, None>> : c \in ConsIds}
    [] op = "deleteConsultation" -> {<<"uAdmin", c, None>> : c \in ConsIds}
    [] OTHER -> {}

ConsBodies(op) ==
  CASE op = "createAppointment" ->
         {[EmptyBody EXCEPT !.patientId = "P1", !.doctorId = "D1", !.dateTime = 1]}
    [] op = "createConsultation" ->
         {[EmptyBody EXCEPT !.appointmentId = a, !.patientId = "P1", !.doctorId = "D1",
                            !.diagnosis = x] : a \in ConsApptIds, x \in Diagnoses}
         \cup {[EmptyBody EXCEPT !.patientId = "P1", !.doctorId = "D1", !.diagnosis = "dxA"]}
    [] op = "updateConsultation" ->
         {[EmptyBody EXCEPT !.appointmentId = a] : a \in ConsApptIds}
         \cup {[EmptyBody EXCEPT !.diagnosis = "dxB"]}
    [] OTHER -> {EmptyBody}

NextCons ==
  \E r \in Slots :
    \/ \E op \in ConsOps(r) : StartRequest(r, op)
    \/ \E p \in ConsParams(reqs[r].op), b \in ConsBodies(reqs[r].op) :
          Authenticate(r, p[1], p[2], p[3], b)
    \/ CreateVerify(r)
    \/ CreateInsert(r)
    \/ CreatePopulate(r)
    \/ DeleteExec(r)
    \/ CreateConsFind(r)
    \/ CreateConsInsert(r)
    \/ CreateConsPopulate(r)
    \/ UpdateConsExec(r)
    \/ DeleteConsExec(r)

SpecCons == Init /\ [][NextCons]_vars

\* The packages/backend copy of the appointment controller's create path, one
\* request at a time, with the profile deletions that leave references absent.
PkgOps ==
  {"deletePatient", "deleteDoctor", "deleteAppointment"} \cup PkgReadOps
  \cup (IF nextAppt + Pending("createAppointment") \in ApptIds
          THEN {"createAppointment"} ELSE {})

NextPkg ==
  \/ \E op \in PkgOps : StartRequest(1, op)
  \/ \E p \in ApptParams(reqs[1].op), b \in ApptBodies(reqs[1].op) :
        Authenticate(1, p[1], p[2], p[3], b)
  \/ PkgCreateOwn(1)
  \/ PkgCreateVerify(1)
  \/ ListByDoctor(1)
  \/ ListByPatient(1)
  \/ CreateInsert(1)
  \/ CreatePopulate(1)
  \/ DeleteExec(1)
  \/ DeletePatientExec(1)
  \/ DeleteDoctorExec(1)

SpecPkg == Init /\ [][NextPkg]_vars

\* The clinical-records API (consultations and prescriptions, with the
\* appointment operations that feed them), one request at a time.
OkLine == [medicationName |-> "Ibu", dosage |-> "5mg", frequency |-> "daily"]

MedLines ==
  {OkLine,
   [OkLine EXCEPT !.dosage = "9mg"],
   [OkLine EXCEPT !.dosage = " 5mg "],
   [OkLine EXCEPT !.dosage = None],
   [OkLine EXCEPT !.dosage = ""],
   [OkLine EXCEPT !.dosage = " "],
   [OkLine EXCEPT !.frequency = None],
   [OkLine EXCEPT !.frequency = " "],
   [OkLine EXCEPT !.medicationName = None]}

\* The medications arrays the requests carry: empty, one line of each kind,
\* and two-line arrays with the invalid line first, second, or in both places.
MedLists ==
  {<<>>}
  \cup {<<m>> : m \in MedLines \ {[OkLine EXCEPT !.dosage = "9mg"]}}
  \cup {<<OkLine, [OkLine EXCEPT !.dosage = "9mg"]>>,
        <<OkLine, [OkLine EXCEPT !.dosage = " "]>>,
        <<[OkLine EXCEPT !.frequency = None], OkLine>>,
        <<[OkLine EXCEPT !.dosage = ""], [OkLine EXCEPT !.frequency = " "]>>}

RecordOps ==
  {"deleteAppointment", "updateConsultation", "deleteConsultation",
   "getAllConsultations", "getConsultationById",
   "getAllPrescriptions", "getPrescriptionById", "updatePrescription", "deletePrescription"}
  \cup (IF nextAppt \in ConsApptIds THEN {"createAppointment"} ELSE {})
  \cup (IF nextCons \in ConsIds THEN {"createConsultation"} ELSE {})
  \cup (IF nextPresc \in PrescIds THEN {"createPrescription"} ELSE {})

RecordCallers == {"uAdmin", "uSec", "uDoc", "uPat1"}

RecordParams(op) ==
  CASE op = "createAppointment" -> {<<"uAdmin", NoId, None>>}
    [] op = "deleteAppointment" -> {<<"uSec", a, None>> : a \in ConsApptIds}
    [] op \in {"createConsultation", "createPrescription",
               "getAllConsultations", "getAllPrescriptions"} ->
         {<<u, NoId, None>> : u \in RecordCallers}
    [] op \in {"updateConsultation", "deleteConsultation", "getConsultationById"} ->
         {<<u, c, None>> : u \in RecordCallers, c \in ConsIds}
    [] op \in {"updatePrescription", "deletePrescription", "getPrescriptionById"} ->
         {<<u, k, None>> : u \in RecordCallers, k \in PrescIds}
    [] OTHER -> {}

\* The bodies offered to a caller: the doctor sends every body, the other
\* callers one well-formed body each.
RecordBodies(op, u) ==
  CASE op = "createAppointment" ->
         {[EmptyBody EXCEPT !.patientId = "P1", !.doctorId = "D1", !.dateTime = 1]}
    [] op = "createConsultation" ->
         {[EmptyBody EXCEPT !.appointmentId = 1, !.patientId = "P1", !.doctorId = "D1",
                            !.diagnosis = "dxA"]}
    [] op = "updateConsultation" -> {[EmptyBody EXCEPT !.diagnosis = "dxB"]}
    [] op = "createPrescription" ->
         {[EmptyBody EXCEPT !.consultationId = 1, !.patientId = "P1", !.doctorId = "D1",
                            !.hasMedications = TRUE, !.medications = <<OkLine>>]}
         \cup (IF u # "uDoc" THEN {} ELSE
           {[EmptyBody EXCEPT !.consultationId = 1, !.patientId = "P1", !.doctorId = "D1",
                              !.hasMedications = TRUE, !.medications = l] : l \in MedLists}
           \cup {[EmptyBody EXCEPT !.consultationId = 1, !.patientId = "P1", !.doctorId = "D1"],
                 [EmptyBody EXCEPT !.patientId = "P1", !.doctorId = "D1",
                                   !.hasMedications = TRUE, !.medications = <<OkLine>>]})
    [] op = "updatePrescription" ->
         {[EmptyBody EXCEPT !.hasMedications = TRUE, !.medications = <<OkLine>>]}
         \cup (IF u # "uDoc" THEN {} ELSE
           {[EmptyBody EXCEPT !.hasMedications = TRUE, !.medications = l] : l \in MedLists}
           \cup {EmptyBody})
    [] OTHER -> {EmptyBody}

NextRecords ==
  \/ \E op \in RecordOps : StartRequest(1, op)
  \/ \E c \in Credentials : CheckToken(1, c)
  \/ /\ reqs[1].cred # None
     /\ \E p \in RecordParams(reqs[1].op) : \E b \in RecordBodies(reqs[1].op, p[1]) :
          Authenticate(1, p[1], p[2], p[3], b)
  \/ CreateVerify(1)
  \/ CreateInsert(1)
  \/ CreatePopulate(1)
  \/ DeleteExec(1)
  \/ CreateConsFind(1)
  \/ CreateConsInsert(1)
  \/ CreateConsPopulate(1)
  \/ UpdateConsExec(1)
  \/ DeleteConsExec(1)
  \/ ListConsFind(1)
  \/ GetConsFind(1)
  \/ ListPrescFind(1)
  \/ GetPrescFind(1)
  \/ CreatePrescInsert(1)
  \/ CreatePrescPopulate(1)
  \/ UpdatePrescExec(1)
  \/ DeletePrescExec(1)

SpecRecords == Init /\ [][NextRecords]_vars

\* The clinical chain appointment -> consultation -> prescription, one request
\* at a time and without deletions: the patient books, the secretary updates
\* (status, or the appointment's patient), the doctor records.
ChainOps ==
  {"updateAppointment", "updateConsultation"}
  \cup (IF nextAppt \in ConsApptIds THEN {"createAppointment"} ELSE {})
  \cup (IF nextCons \in ConsIds THEN {"createConsultation"} ELSE {})
  \cup (IF nextPresc \in PrescIds THEN {"createPrescription"} ELSE {})

ChainParams(op) ==
  CASE op = "createAppointment" -> {<<"uPat1", NoId, None>>}
    [] op = "updateAppointment" -> {<<u, a, None>> : u \in {"uSec", "uPat1"}, a \in ApptIds}
    [] op \in {"createConsultation", "createPrescription"} -> {<<"uDoc", NoId, None>>}
    [] op = "updateConsultation" -> {<<"uDoc", c, None>> : c \in ConsIds}
    [] OTHER -> {}

ChainBodies(op) ==
  CASE op = "createAppointment" ->
         {[EmptyBody EXCEPT !.patientId = "P1", !.doctorId = "D1", !.dateTime = 1]}
    [] op = "updateAppointment" ->
         {[EmptyBody EXCEPT !.status = "confirmed"], [EmptyBody EXCEPT !.patientId = "P2"]}
    [] op = "createConsultation" ->
         {[EmptyBody EXCEPT !.appointmentId = a, !.patientId = "P1", !.doctorId = "D1",
                            !.diagnosis = "dxA"] : a \in ApptIds}
    [] op = "updateConsultation" ->
         {[EmptyBody EXCEPT !.appointmentId = a] : a \in ApptIds}
         \cup {[EmptyBody EXCEPT !.diagnosis = "dxB"]}
    [] op = "createPrescription" ->
         {[EmptyBody EXCEPT !.consultationId = 1, !.patientId = "P1", !.doctorId = "D1",
                            !.hasMedications = TRUE, !.medications = l] :
            l \in {<<OkLine>>, <<>>}}
    [] OTHER -> {EmptyBody}

NextChain ==
  \/ \E op \in ChainOps : StartRequest(1, op)
  \/ \E p \in ChainParams(reqs[1].op), b \in ChainBodies(reqs[1].op) :
        Authenticate(1, p[1], p[2], p[3], b)
  \/ CreateOwn(1)
  \/ CreateVerify(1)
  \/ CreateInsert(1)
  \/ CreatePopulate(1)
  \/ UpdateFind(1)
  \/ UpdatePatient(1)
  \/ UpdateExec(1)
  \/ CreateConsFind(1)
  \/ CreateConsInsert(1)
  \/ CreateConsPopulate(1)
  \/ UpdateConsExec(1)
  \/ CreatePrescInsert(1)
  \/ CreatePrescPopulate(1)

SpecChain == Init /\ [][NextChain]_vars

\* Staff writes of appointments racing with deletions, two requests at a
\* time: slot 1 creates and updates, slot 2 deletes the appointment or a
\* profile it references.
RaceOps(r) ==
  IF r = 1
    THEN {"updateAppointment"}
         \cup (IF nextAppt + Pending("createAppointment") \in ApptIds
                 THEN {"createAppointment"} ELSE {})
    ELSE {"deleteAppointment", "deletePatient", "deleteDoctor"}

RaceParams(op) ==
  CASE op = "createAppointment" -> {<<"uSec", NoId, None>>}
    [] op \in {"updateAppointment", "deleteAppointment"} -> {<<"uSec", a, None>> : a \in ApptIds}
    [] op = "deletePatient" -> {<<"uAdmin", NoId, "P1">>}
    [] op = "deleteDoctor" -> {<<"uAdmin", NoId, "D1">>}
    [] OTHER -> {}

RaceBodies(op) ==
  CASE op = "createAppointment" ->
         {[EmptyBody EXCEPT !.patientId = p, !.doctorId = "D1", !.dateTime = 1] :
            p \in PatientIds}
    [] op = "updateAppointment" -> {[EmptyBody EXCEPT !.status = "confirmed"]}
    [] OTHER -> {EmptyBody}

NextRace ==
  \E r \in Slots :
    \/ \E op \in RaceOps(r) : StartRequest(r, op)
    \/ \E p \in RaceParams(reqs[r].op), b \in RaceBodies(reqs[r].op) :
          Authenticate(r, p[1], p[2], p[3], b)
    \/ CreateVerify(r)
    \/ CreateInsert(r)
    \/ CreatePopulate(r)
    \/ UpdateFind(r)
    \/ UpdateExec(r)
    \/ DeleteExec(r)
    \/ DeletePatientExec(r)
    \/ DeleteDoctorExec(r)

SpecRace == Init /\ [][NextRace]_vars

\* Accounts and tokens, one request at a time: the public routes, the admin's
\* user management, and two protected routes (token refresh, open to every
\* role, and deleteAppointment, open to admin and secretary) called with a
\* token issued earlier.
AuthOps == {"register", "login", "refreshToken", "updateUser", "deleteUser", "deleteAppointment"}

AuthCallers == {"uAdmin", "uPat1", "uNew"}

AuthParams(op) ==
  CASE op = "refreshToken" -> {<<u, NoId, None>> : u \in AuthCallers}
    [] op = "deleteAppointment" -> {<<u, 1, None>> : u \in AuthCallers}
    [] op = "updateUser" -> {<<u, NoId, t>> : u \in {"uAdmin", "uPat1"}, t \in {"uPat1", "uNew"}}
    [] op = "deleteUser" -> {<<u, NoId, "uPat1">> : u \in {"uAdmin", "uNew"}}
    [] OTHER -> {}

AuthBodies(op) ==
  CASE op = "register" ->
         {[EmptyBody EXCEPT !.email = e, !.password = "good", !.role = x] :
            e \in {"uNew", "uAdmin"}, x \in {None, "admin", "doctor", "secretary"}}
         \cup {[EmptyBody EXCEPT !.email = "uNew", !.password = "short"],
               [EmptyBody EXCEPT !.email = "uNew", !.password = "good", !.role = "bogus"],
               [EmptyBody EXCEPT !.password = "good"]}
    [] op = "login" ->
         {[EmptyBody EXCEPT !.email = e, !.password = w] :
            e \in AuthCallers, w \in {"good", "bad"}}
         \cup {[EmptyBody EXCEPT !.email = "uPat1"]}
    [] op = "updateUser" ->
         {[EmptyBody EXCEPT !.role = "secretary"],
          [EmptyBody EXCEPT !.status = "inactive"],
          [EmptyBody EXCEPT !.status = "active"],
          [EmptyBody EXCEPT !.status = "bogus"],
          [EmptyBody EXCEPT !.email = "uPat1", !.role = "patient"]}
    [] OTHER -> {EmptyBody}

\* A protected request carries a token that was issued to the account it names.
HoldsToken(u) == \E k \in tokens : k.id = u

NextAuth ==
  \/ \E op \in AuthOps : StartRequest(1, op)
  \/ \E b \in AuthBodies(reqs[1].op) : EnterPublic(1, b)
  \/ \E p \in AuthParams(reqs[1].op), b \in AuthBodies(reqs[1].op) :
        HoldsToken(p[1]) /\ Authenticate(1, p[1], p[2], p[3], b)
  \/ RegFind(1)
  \/ RegCreate(1)
  \/ RegProfile(1)
  \/ LoginFind(1)
  \/ LoginMatch(1)
  \/ RefreshExec(1)
  \/ UpdateUserEmail(1)
  \/ UpdateUserExec(1)
  \/ DeleteUserExec(1)
  \/ DeleteUserProfile(1)
  \/ DeleteExec(1)

SpecAuth == Init /\ [][NextAuth]_vars

\* ================================================================ claims
\* The request that takes the step is the one whose slot changes.
Acts(r) == reqs'[r] # reqs[r]

\* C1: an appointment inserted by a createAppointment whose caller has role
\* patient is stored with status pending, whatever status the request carried.
C1_PatientCreatePending ==
  [][\A r \in Slots :
       (Acts(r) /\ reqs[r].op = "createAppointment" /\ reqs[r].role = "patient")
       => \A a \in ApptIds :
            appointments'[a] # appointments[a] => appointments'[a].status = "pending"]_vars

\* A patient's create has just inserted its appointment.
C1_Witness ==
  \E r \in Slots :
    /\ reqs[r].op = "createAppointment" /\ reqs[r].role = "patient"
    /\ reqs[r].pc = "create_populate"
    /\ reqs[r].body.status = "pending"
    /\ appointments[reqs[r].id].status = "pending"

\* C2: in every reachable state, also while createConsultation requests for
\* the same appointment interleave, no two consultations hold the same
\* appointmentId.
C2_UniqueAppointmentId ==
  \A c, d \in ConsIds :
    (c # d /\ ConsExists(c) /\ ConsExists(d))
    => consultations[c].appointmentId # consultations[d].appointmentId

\* A createConsultation has passed its existence check and is about to insert
\* for an appointment that already has a consultation.
C2_Witness ==
  \E r \in Slots :
    /\ reqs[r].op = "createConsultation" /\ reqs[r].pc = "ccons_insert"
    /\ \E d \in ConsIds :
         ConsExists(d) /\ consultations[d].appointmentId = reqs[r].body.appointmentId

\* C3: a createConsultation whose insert meets an existing consultation of the
\* same appointment is answered 409, creates no record and leaves the existing
\* consultations as they were.
C3_DuplicateConflict ==
  [][\A r \in Slots :
       (/\ Acts(r) /\ reqs[r].op = "createConsultation" /\ reqs[r].pc = "ccons_insert"
        /\ \E d \in ConsIds :
             ConsExists(d) /\ consultations[d].appointmentId = reqs[r].body.appointmentId)
       => /\ reqs'[r].pc = "done" /\ reqs'[r].code = 409
          /\ consultations' = consultations
          /\ nextCons' = nextCons]_vars

\* The loser of two interleaved creates for one appointment has been answered
\* 409 while the winner's consultation stands.
C3_Witness ==
  \E r, w \in Slots :
    /\ r # w
    /\ reqs[r].op = "createConsultation" /\ reqs[r].pc = "done" /\ reqs[r].code = 409
    /\ reqs[w].op = "createConsultation" /\ reqs[w].pc \in {"ccons_populate", "done"}
    /\ reqs[w].body.appointmentId = reqs[r].body.appointmentId
    /\ ConsExists(reqs[w].id)
    /\ consultations[reqs[w].id].diagnosis = reqs[w].body.diagnosis
    /\ reqs[w].body.diagnosis # reqs[r].body.diagnosis

\* C4: a list answered to a caller with role patient holds only appointments
\* whose patient is the caller's own Patient record, with or without a status
\* filter.
C4_ListOnlyOwn ==
  \A r \in Slots :
    (reqs[r].op = "getAllAppointments" /\ reqs[r].role = "patient" /\ reqs[r].pc = "done")
    => \A x \in reqs[r].data :
         x.patientId \in PatientIds /\ patients[x.patientId] = reqs[r].uid

\* A patient has been answered a non-empty list while another patient's
\* appointment, matching the same filter, is stored.
C4_Witness ==
  \E r \in Slots :
    /\ reqs[r].op = "getAllAppointments" /\ reqs[r].role = "patient"
    /\ reqs[r].pc = "done" /\ reqs[r].code = 200 /\ reqs[r].data # {}
    /\ \E a \in ApptIds :
         /\ appointments[a] # NoDoc
         /\ appointments[a].patientId \in PatientIds
         /\ patients[appointments[a].patientId] \notin {None, reqs[r].uid}
         /\ (reqs[r].body.status # None => appointments[a].status = reqs[r].body.status)

\* C5: a patient's getAppointmentById of an existing appointment is answered
\* 403 without data when the appointment is not the caller's own, and succeeds
\* with the appointment when it is.
C5_OwnershipGate ==
  [][\A r \in Slots :
       (/\ Acts(r) /\ reqs[r].op = "getAppointmentById" /\ reqs[r].role = "patient"
        /\ reqs[r].pc \in {"get_find", "get_own"} /\ reqs'[r].pc = "done"
        /\ appointments[reqs[r].id] # NoDoc)
       => LET doc == appointments[reqs[r].id]
              own == doc.patientId \in PatientIds /\ patients[doc.patientId] = reqs[r].uid
          IN IF own
               THEN /\ reqs'[r].code = 200
                    /\ reqs'[r].data = {[id |-> reqs[r].id, patientId |-> doc.patientId,
                                         status |-> doc.status]}
               ELSE reqs'[r].code = 403 /\ reqs'[r].data = {}]_vars

\* C6: an appointment is changed or removed by updateAppointment or
\* deleteAppointment only for a secretary or admin caller; a caller of another
\* role (doctor) is answered 403 and the appointments stay as they were.
C6_OnlyStaffWrite ==
  [][\A r \in Slots :
       (Acts(r) /\ reqs[r].op \in {"updateAppointment", "deleteAppointment"})
       => /\ appointments' # appointments => reqs[r].role \in {"secretary", "admin"}
          /\ (reqs[r].pc = "auth" /\ users[reqs'[r].uid] \notin {"secretary", "admin", None})
             => /\ reqs'[r].pc = "done" /\ reqs'[r].code = 403
                /\ appointments' = appointments]_vars

\* A doctor's update or delete of a stored appointment has been answered 403.
C6_Witness ==
  \E r \in Slots :
    /\ reqs[r].op \in {"updateAppointment", "deleteAppointment"}
    /\ reqs[r].role = "doctor" /\ reqs[r].pc = "done" /\ reqs[r].code = 403
    /\ appointments[reqs[r].id] # NoDoc

\* C7: every update or delete of an appointment issued by a caller with role
\* patient is answered 403, own appointment or not, and leaves the stored
\* appointments as they were; the controllers deny a patient by themselves,
\* whatever the route admits.
C7_PatientNeverMutates ==
  /\ \A op \in {"updateAppointment", "deleteAppointment"} : \A b \in ApptBodies(op) :
       LET a == Enter([Idle EXCEPT !.op = op], "patient", b)
       IN a.pc = "done" /\ a.code = 403
  /\ [][\A r \in Slots :
          (Acts(r) /\ reqs[r].op \in {"updateAppointment", "deleteAppointment"})
          => /\ appointments' # appointments => reqs[r].role # "patient"
             /\ (reqs[r].pc = "auth" /\ users[reqs'[r].uid] = "patient")
                => /\ reqs'[r].pc = "done" /\ reqs'[r].code = 403
                   /\ appointments' = appointments]_vars

\* A patient's update or delete of their own stored appointment has been
\* answered 403.
C7_Witness ==
  \E r \in Slots :
    /\ reqs[r].op \in {"updateAppointment", "deleteAppointment"}
    /\ reqs[r].role = "patient" /\ reqs[r].pc = "done" /\ reqs[r].code = 403
    /\ appointments[reqs[r].id] # NoDoc
    /\ appointments[reqs[r].id].patientId \in PatientIds
    /\ patients[appointments[reqs[r].id].patientId] = reqs[r].uid

\* The transitions the lifecycle of C8 admits.
Lifecycle ==
  {<<"pending", "confirmed">>, <<"confirmed", "completed">>,
   <<"pending", "cancelled">>, <<"confirmed", "cancelled">>}

C9_PatientBooksSelfOnly ==
  [][\A r \in Slots :
       (/\ Acts(r) /\ reqs[r].op = "createAppointment" /\ reqs[r].role = "patient"
        /\ reqs[r].pc = "create_own"
        /\ \E p \in PatientIds : patients[p] = reqs[r].uid /\ p # reqs[r].body.patientId)
       => /\ reqs'[r].pc = "done" /\ reqs'[r].code = 403
          /\ appointments' = appointments /\ nextAppt' = nextAppt]_vars

\* A patient who has a profile has been answered 403 for a booking in another
\* existing patient's name.
C9_Witness ==
  \E r \in Slots :
    /\ reqs[r].op = "createAppointment" /\ reqs[r].role = "patient"
    /\ reqs[r].pc = "done" /\ reqs[r].code = 403
    /\ \E p \in PatientIds : patients[p] = reqs[r].uid /\ p # reqs[r].body.patientId
    /\ reqs[r].body.patientId \in PatientIds
    /\ patients[reqs[r].body.patientId] # None

\* C10: a createAppointment that reaches the check of its references with the
\* Patient or the Doctor absent is answered 404 with a message naming the
\* missing reference, and creates nothing.
C10_NotFoundNamesReference ==
  [][\A r \in Slots :
       (/\ Acts(r) /\ reqs[r].op = "createAppointment" /\ reqs[r].pc = "create_verify"
        /\ \/ reqs[r].body.patientId \notin PatientIds
           \/ patients[reqs[r].body.patientId] = None
           \/ reqs[r].body.doctorId \notin doctors)
       => /\ reqs'[r].pc = "done" /\ reqs'[r].code = 404
          /\ reqs'[r].msg \in {"patient not found", "doctor not found"}
          /\ reqs'[r].msg = "doctor not found" => reqs[r].body.doctorId \notin doctors
          /\ reqs'[r].msg = "patient not found" =>
               (reqs[r].body.patientId \notin PatientIds \/ patients[reqs[r].body.patientId] = None)
          /\ appointments' = appointments /\ nextAppt' = nextAppt]_vars

\* C11: a createConsultation whose lookup finds no Appointment with the
\* request's appointmentId is answered 404 and leaves the consultations as
\* they were; one answered 201 names an appointment that is stored.
C11_ConsultationNeedsAppointment ==
  [][\A r \in Slots :
       (Acts(r) /\ reqs[r].op = "createConsultation")
       => /\ (reqs[r].pc = "ccons_find" /\ appointments[reqs[r].body.appointmentId] = NoDoc)
             => /\ reqs'[r].pc = "done" /\ reqs'[r].code = 404
                /\ consultations' = consultations /\ nextCons' = nextCons
          /\ (reqs[r].pc = "ccons_populate" /\ reqs'[r].code = 201)
             => appointments[reqs[r].body.appointmentId] # NoDoc]_vars

\* A createConsultation naming an appointment that is not stored has been
\* answered 404.
C11_Witness ==
  \E r \in Slots :
    /\ reqs[r].op = "createConsultation" /\ reqs[r].pc = "done" /\ reqs[r].code = 404
    /\ reqs[r].body.appointmentId \in ApptIds
    /\ appointments[reqs[r].body.appointmentId] = NoDoc

\* C12: the prescription a createPrescription stores names a consultation that
\* is in the store, and a request naming a consultation that is not there
\* creates nothing.
C12_PrescriptionNeedsConsultation ==
  [][\A r \in Slots :
       (Acts(r) /\ reqs[r].op = "createPrescription")
       => \A k \in PrescIds :
            prescriptions'[k] # prescriptions[k]
            => /\ prescriptions'[k].consultationId \in ConsIds
               /\ consultations[prescriptions'[k].consultationId] # NoCons]_vars

\* C13: a createPrescription or updatePrescription that carries an empty
\* medications list is answered 400 and changes no prescription, and no stored
\* prescription ever has an empty medications list.
C13_EmptyMedicationsRejected ==
  [][/\ \A r \in Slots :
          (/\ Acts(r) /\ reqs'[r].op \in {"createPrescription", "updatePrescription"}
           /\ reqs'[r].body.hasMedications /\ reqs'[r].body.medications = <<>>)
          => /\ prescriptions' = prescriptions /\ nextPresc' = nextPresc
             /\ reqs'[r].pc \in {"upresc_exec", "done"}
             /\ reqs'[r].pc = "done" => reqs'[r].code = 400
     /\ \A k \in PrescIds :
          prescriptions'[k] # NoPresc => Len(prescriptions'[k].medications) > 0]_vars

\* An update carrying an empty medications list for a stored prescription has
\* been answered 400 and the prescription still has its medications.
C13_Witness ==
  \E r \in Slots :
    /\ reqs[r].op = "updatePrescription" /\ reqs[r].pc = "done" /\ reqs[r].code = 400
    /\ reqs[r].body.hasMedications /\ reqs[r].body.medications = <<>>
    /\ prescriptions[reqs[r].id] # NoPresc
    /\ Len(prescriptions[reqs[r].id].medications) > 0

\* Missing, empty or whitespace-only.
Blank(x) == x \in {None, "", " "}

BlankLine(m) == Blank(m.dosage) \/ Blank(m.frequency)

\* C14: a createPrescription or updatePrescription whose medications list has
\* a line with missing or blank dosage or frequency is answered with a
\* validation error (400) that names the first such line, and no prescription
\* is stored or changed.
C14_BlankLineRejected ==
  [][\A r \in Slots :
       (/\ Acts(r) /\ reqs[r].op \in {"createPrescription", "updatePrescription"}
        /\ reqs[r].pc \in {"cpresc_insert", "upresc_exec"}
        /\ reqs[r].body.hasMedications
        /\ \E i \in 1..Len(reqs[r].body.medications) : BlankLine(reqs[r].body.medications[i]))
       => LET l == reqs[r].body.medications
              first == CHOOSE i \in 1..Len(l) :
                         BlankLine(l[i]) /\ \A j \in 1..(i - 1) : ~BlankLine(l[j])
          IN /\ reqs'[r].pc = "done" /\ reqs'[r].code = 400
             /\ reqs'[r].data = {[entry |-> first]}
             /\ prescriptions' = prescriptions /\ nextPresc' = nextPresc]_vars

\* A request whose second medication line has a whitespace-only dosage has
\* been answered 400 naming line 2.
C14_Witness ==
  \E r \in Slots :
    /\ reqs[r].op \in {"createPrescription", "updatePrescription"}
    /\ reqs[r].pc = "done" /\ reqs[r].code = 400
    /\ Len(reqs[r].body.medications) = 2
    /\ reqs[r].body.medications[2].dosage = " "
    /\ reqs[r].data = {[entry |-> 2]}

\* C15 as stated: after an updatePrescription answered 200 that carried a
\* medications list L, the stored list equals L exactly; one that carried no
\* list leaves the stored list as it was.
C15_ReplaceExactly ==
  [][\A r \in Slots :
       (/\ Acts(r) /\ reqs[r].op = "updatePrescription" /\ reqs[r].pc = "upresc_exec"
        /\ reqs'[r].code = 200)
       => prescriptions'[reqs[r].id].medications =
            IF reqs[r].body.hasMedications THEN reqs[r].body.medications
            ELSE prescriptions[reqs[r].id].medications]_vars

\* C15 as amended: after an updatePrescription answered 200 that carried a
\* medications list L, the stored list has exactly the lines of L, in order,
\* each with its strings trimmed of surrounding blanks, and nothing of the
\* previous list; one that carried no list leaves the stored list as it was.
C15_ReplaceWithCast ==
  [][\A r \in Slots :
       (/\ Acts(r) /\ reqs[r].op = "updatePrescription" /\ reqs[r].pc = "upresc_exec"
        /\ reqs'[r].code = 200)
       => LET l == reqs[r].body.medications
              stored == prescriptions'[reqs[r].id].medications
          IN IF reqs[r].body.hasMedications
               THEN /\ Len(stored) = Len(l)
                    /\ \A i \in 1..Len(l) :
                         /\ stored[i].medicationName = l[i].medicationName
                         /\ stored[i].frequency = l[i].frequency
                         /\ stored[i].dosage = IF l[i].dosage = " 5mg " THEN "5mg"
                                                                       ELSE l[i].dosage
               ELSE stored = prescriptions[reqs[r].id].medications]_vars

\* An update that carried a one-line list with a padded dosage has been
\* answered 200 and the stored list is that line, trimmed.
C15_Witness ==
  \E r \in Slots :
    /\ reqs[r].op = "updatePrescription" /\ reqs[r].pc = "done" /\ reqs[r].code = 200
    /\ reqs[r].body.hasMedications
    /\ reqs[r].body.medications = <<[OkLine EXCEPT !.dosage = " 5mg "]>>
    /\ prescriptions[reqs[r].id].medications = <<OkLine>>

\* Roles C16 admits to each write of a consultation or prescription.
C16_Writers(op) ==
  IF op \in {"deleteConsultation", "deletePrescription"} THEN {"admin"}
  ELSE {"doctor", "admin"}

C16_WriteOps ==
  {"createConsultation", "updateConsultation", "deleteConsultation",
   "createPrescription", "updatePrescription", "deletePrescription"}

\* C16: a create or update of a consultation or prescription by a caller who
\* is neither doctor nor admin, and a delete by a caller who is not admin, is
\* answered 403 with every collection unchanged; and the consultation and
\* prescription collections change only in a step of a write request whose
\* caller has a permitted role.
C16_RecordWritesByRole ==
  [][/\ \A r \in Slots :
          (/\ Acts(r) /\ reqs[r].pc = "auth" /\ reqs[r].op \in C16_WriteOps
           /\ reqs'[r].uid # None
           /\ users[reqs'[r].uid] \in Roles \ C16_Writers(reqs[r].op))
          => /\ reqs'[r].pc = "done" /\ reqs'[r].code = 403
             /\ UNCHANGED stores
     /\ (consultations' # consultations \/ prescriptions' # prescriptions)
          => \E r \in Slots :
               /\ Acts(r) /\ reqs[r].op \in C16_WriteOps
               /\ reqs[r].role \in C16_Writers(reqs[r].op)]_vars

\* A secretary's prescription update and a doctor's prescription delete have
\* both been refused while a prescription is stored.
C16_Witness ==
  /\ \E k \in PrescIds : prescriptions[k] # NoPresc
  /\ \E r \in Slots :
       /\ reqs[r].op \in {"updatePrescription", "deletePrescription", "deleteConsultation"}
       /\ reqs[r].uid # None /\ users[reqs[r].uid] \in Roles \ C16_Writers(reqs[r].op)
       /\ reqs[r].pc = "done" /\ reqs[r].code = 403

\* C17: a caller with role patient is denied the list and get-by-id reads of
\* consultations and prescriptions and never receives any consultation or
\* prescription data: every such request that has been answered carries no
\* record.
C17_PatientCannotReadRecords ==
  \A r \in Slots :
    (/\ reqs[r].op \in {"getAllConsultations", "getConsultationById",
                        "getAllPrescriptions", "getPrescriptionById"}
     /\ reqs[r].uid # None /\ users[reqs[r].uid] = "patient"
     /\ reqs[r].pc = "done")
    => reqs[r].code = 403 /\ reqs[r].data = {}

\* The credentials C18 names: absent, malformed, wrongly signed, expired.
C18_BadCredentials == Credentials \ {"valid"}

\* C18: a request on an appointment, consultation or prescription route whose
\* bearer credential is absent, malformed, wrongly signed or expired is
\* answered 401 by the step that reads the credential, with every collection
\* unchanged; and a request that carried such a credential takes no further
\* step of its own (its slot only changes when a new request arrives).
C18_BadCredentialRejected ==
  [][\A r \in Slots :
       /\ (/\ Acts(r) /\ reqs[r].pc = "auth" /\ reqs[r].cred = None
           /\ reqs'[r].cred \in C18_BadCredentials)
          => /\ reqs'[r].pc = "done" /\ reqs'[r].code = 401
             /\ UNCHANGED stores
       /\ (Acts(r) /\ reqs[r].cred \in C18_BadCredentials)
          => /\ reqs[r].pc = "done"
             /\ reqs'[r].pc = "auth" /\ reqs'[r].cred = None
             /\ UNCHANGED stores]_vars

\* A prescription is stored and a createPrescription carrying an expired token
\* has been answered 401.
C18_Witness ==
  /\ \E k \in PrescIds : prescriptions[k] # NoPresc
  /\ \E r \in Slots :
       /\ reqs[r].op = "createPrescription" /\ reqs[r].cred = "expired"
       /\ reqs[r].pc = "done" /\ reqs[r].code = 401

\* C19: for a patient caller of the appointment list, a missing Patient
\* profile is answered 404; an existing profile without appointments is
\* answered 200 with an empty result; and a patient's list is answered 200
\* only when the profile lookup found a profile.
C19_ProfileMissingVsEmpty ==
  [][\A r \in Slots :
       (Acts(r) /\ reqs[r].op = "getAllAppointments" /\ reqs[r].role = "patient")
       => /\ (reqs[r].pc = "list_own" /\ FindPatientByUser(reqs[r].uid) = None)
               => /\ reqs'[r].pc = "done" /\ reqs'[r].code = 404
                  /\ reqs'[r].msg = "patient profile not found"
          /\ (/\ reqs[r].pc = "list_find" /\ reqs[r].own # None
              /\ \A a \in ApptIds : appointments[a].patientId # reqs[r].own)
               => /\ reqs'[r].pc = "done" /\ reqs'[r].code = 200
                  /\ reqs'[r].data = {}
          /\ (reqs'[r].pc = "done" /\ reqs'[r].code = 200)
               => reqs[r].pc = "list_find" /\ reqs[r].own # None]_vars

\* A patient account whose profile was deleted has asked for the list and got
\* 404, while the other patient still has a profile.
C19_Witness ==
  \E r \in Slots :
    /\ reqs[r].op = "getAllAppointments" /\ reqs[r].role = "patient"
    /\ FindPatientByUser(reqs[r].uid) = None
    /\ reqs[r].pc = "done" /\ reqs[r].code = 404
    /\ \E p \in PatientIds : patients[p] # None

\* The four registrations of the two workflow reads.
C20_WorkflowReads ==
  {"getAppointmentsByDoctor", "getAppointmentsByPatient"} \cup PkgReadOps

\* C20: an answered by-doctor or by-patient read was not refused when its
\* caller is secretary, admin or doctor, and was refused with 403 when its
\* caller is a patient.
C20_WorkflowReadsByStaff ==
  \A r \in Slots :
    (reqs[r].op \in C20_WorkflowReads /\ reqs[r].pc = "done" /\ reqs[r].role # None)
    => IF reqs[r].role = "patient" THEN reqs[r].code = 403
                                   ELSE reqs[r].code # 403

\* C21: once a consultation references an appointment, no step changes that
\* appointment's patientId or doctorId.
C21_ReferencedAppointmentFrozen ==
  [][\A a \in ApptIds :
       (/\ ApptExists(a)
        /\ \E c \in ConsIds : ConsExists(c) /\ consultations[c].appointmentId = a
        /\ appointments'[a] # NoDoc)
       => /\ appointments'[a].patientId = appointments[a].patientId
          /\ appointments'[a].doctorId = appointments[a].doctorId]_vars

\* C22: deleteAppointment changes only the appointment collection and
\* deleteConsultation only the consultation collection, and a record whose
\* parent is gone is still answered 200 when read by id.
C22_NoCascadeOrphansReadable ==
  [][\A r \in Slots :
       /\ (Acts(r) /\ reqs[r].pc = "delete_exec")
            => UNCHANGED <<consultations, prescriptions>>
       /\ (Acts(r) /\ reqs[r].pc = "dcons_exec")
            => UNCHANGED <<appointments, prescriptions>>
       /\ (/\ Acts(r) /\ reqs[r].pc = "gcons_find" /\ ConsExists(reqs[r].id)
           /\ ~ApptExists(consultations[reqs[r].id].appointmentId))
            => reqs'[r].code = 200
       /\ (/\ Acts(r) /\ reqs[r].pc = "gpresc_find" /\ PrescExists(reqs[r].id)
           /\ ~ConsExists(prescriptions[reqs[r].id].consultationId))
            => reqs'[r].code = 200]_vars

\* C23: an appointment inserted by admin or secretary has the supplied status
\* when that is one of the four values and pending when none was supplied; a
\* create or update carrying any other status is answered 400 and leaves the
\* appointments unchanged; every stored appointment has one of the four values.
C23_StaffStatusOnCreate ==
  [][/\ \A r \in Slots :
          /\ (/\ Acts(r) /\ reqs[r].op = "createAppointment"
              /\ reqs[r].pc = "create_insert" /\ reqs[r].role \in {"admin", "secretary"})
             => LET given == reqs[r].body.status
                    four  == {"pending", "confirmed", "cancelled", "completed"}
                IN IF given \in four \cup {None}
                     THEN /\ nextAppt' = nextAppt + 1
                          /\ appointments'[nextAppt].status =
                               IF given = None THEN "pending" ELSE given
                     ELSE /\ reqs'[r].pc = "done" /\ reqs'[r].code = 400
                          /\ UNCHANGED stores
          /\ (/\ Acts(r) /\ reqs[r].op = "updateAppointment" /\ reqs[r].pc = "update_exec"
              /\ reqs[r].body.status
                   \notin {"pending", "confirmed", "cancelled", "completed", None})
             => /\ reqs'[r].pc = "done" /\ reqs'[r].code = 400
                /\ UNCHANGED stores
     /\ \A a \in ApptIds :
          appointments'[a] # NoDoc
            => appointments'[a].status \in {"pending", "confirmed", "cancelled", "completed"}]_vars

\* A secretary's create with status completed has been answered 201 and the
\* stored appointment is completed.
C23_Witness ==
  \E r \in Slots :
    /\ reqs[r].op = "createAppointment" /\ reqs[r].role = "secretary"
    /\ reqs[r].body.status = "completed"
    /\ reqs[r].pc = "done" /\ reqs[r].code = 201
    /\ appointments[reqs[r].id] # NoDoc
    /\ appointments[reqs[r].id].status = "completed"

\* C24: each link of the chain succeeds from the state the previous link left.
\* (1) a patient's create for themself without status stores a pending
\* appointment and is answered 201; (2) a secretary's update with status
\* confirmed of a stored appointment stores confirmed and is answered 200;
\* (3) a doctor's createConsultation for a confirmed appointment that has no
\* consultation stores it and is answered 201; (4) a doctor's
\* createPrescription for a stored consultation of a confirmed appointment,
\* with one line that has dosage and frequency, stores it and is answered 201.
C24_ChainSucceeds ==
  [][\A r \in Slots : Acts(r) =>
       LET q == reqs[r] IN
       /\ (/\ q.op = "createAppointment" /\ q.role = "patient" /\ q.body.status = None
           /\ q.pc = "create_insert")
          => /\ appointments'[nextAppt].status = "pending"
             /\ appointments'[nextAppt].patientId = FindPatientByUser(q.uid)
             /\ reqs'[r].pc = "create_populate"
       /\ (/\ q.op = "createAppointment" /\ q.role = "patient" /\ q.pc = "create_populate")
          => reqs'[r].code = 201
       /\ (/\ q.op = "updateAppointment" /\ q.role = "secretary" /\ q.pc = "update_exec"
           /\ q.body.status = "confirmed" /\ ApptExists(q.id))
          => /\ appointments'[q.id].status = "confirmed"
             /\ reqs'[r].code = 200
       /\ (/\ q.op = "createConsultation" /\ q.role = "doctor" /\ q.pc = "ccons_insert"
           /\ ApptExists(q.body.appointmentId)
           /\ appointments[q.body.appointmentId].status = "confirmed"
           /\ \A c \in ConsIds : consultations[c].appointmentId # q.body.appointmentId)
          => /\ consultations'[nextCons].appointmentId = q.body.appointmentId
             /\ reqs'[r].pc = "ccons_populate"
       /\ (/\ q.op = "createConsultation" /\ q.role = "doctor" /\ q.pc = "ccons_populate")
          => reqs'[r].code = 201
       /\ (/\ q.op = "createPrescription" /\ q.role = "doctor" /\ q.pc = "cpresc_insert"
           /\ ConsExists(q.body.consultationId)
           /\ q.body.medications = <<OkLine>>)
          => /\ prescriptions'[nextPresc].consultationId = q.body.consultationId
             /\ prescriptions'[nextPresc].medications = <<OkLine>>
             /\ reqs'[r].pc = "cpresc_populate"
       /\ (/\ q.op = "createPrescription" /\ q.role = "doctor" /\ q.pc = "cpresc_populate")
          => reqs'[r].code = 201]_vars

\* The end of the chain: the doctor's createPrescription has been answered
\* 201; its prescription references a stored consultation, whose appointment
\* is stored, confirmed, and belongs to the patient who booked it.
C24_Witness ==
  \E r \in Slots :
    /\ reqs[r].op = "createPrescription" /\ reqs[r].role = "doctor"
    /\ reqs[r].pc = "done" /\ reqs[r].code = 201
    /\ LET k == prescriptions[reqs[r].id] IN
       /\ k.medications = <<OkLine>>
       /\ ConsExists(k.consultationId)
       /\ LET a == consultations[k.consultationId].appointmentId IN
          /\ ApptExists(a)
          /\ appointments[a].status = "confirmed"
          /\ appointments[a].patientId = "P1"

\* C25: whenever createAppointment inserts an appointment, the patient and the
\* doctor it names exist at the moment of the insert, whatever deletion ran
\* between the handler's existence check and its insert.
C25_InsertReferencesExist ==
  [][\A r \in Slots :
       (/\ Acts(r) /\ reqs[r].op = "createAppointment" /\ reqs[r].pc = "create_insert"
        /\ nextAppt' # nextAppt)
       => /\ PatientExists(appointments'[nextAppt].patientId)
          /\ DoctorExists(appointments'[nextAppt].doctorId)]_vars

\* C27: an updateAppointment whose appointment was deleted between its
\* existence check and its write is answered 404 (never 500) and does not
\* recreate the appointment.
C27_UpdateVsDelete ==
  [][\A r \in Slots :
       (/\ Acts(r) /\ reqs[r].op = "updateAppointment" /\ reqs[r].pc = "update_exec"
        /\ ~ApptExists(reqs[r].id))
       => /\ reqs'[r].pc = "done" /\ reqs'[r].code = 404
          /\ appointments' = appointments]_vars

\* C28: with no deletions, every stored consultation's appointmentId
\* references a stored appointment and no two stored consultations share an
\* appointmentId.
C28_ConsultationChainKept ==
  /\ \A c \in ConsIds :
       ConsExists(c) => ApptExists(consultations[c].appointmentId)
  /\ \A c, d \in ConsIds :
       (ConsExists(c) /\ ConsExists(d) /\ c # d)
         => consultations[c].appointmentId # consultations[d].appointmentId

\* C26: a register step creates only accounts of role patient and issues only
\* tokens of role patient.
C26_RegisterYieldsPatient ==
  [][\A r \in Slots :
       (Acts(r) /\ reqs[r].op = "register")
       => /\ \A u \in Accounts : users'[u] # users[u] => users'[u] = "patient"
          /\ \A k \in tokens' \ tokens : k.role = "patient"]_vars

\* C29: a protected request is judged by the stored user at that moment: when
\* the account its token names is gone it is answered 401; when the stored
\* role is not one the route admits it is answered 403; otherwise it enters
\* its handler with the stored role, whatever role its token was issued with.
C29_StoredUserDecides ==
  [][\A r \in Slots :
       (/\ Acts(r) /\ reqs[r].pc = "auth" /\ reqs[r].op \notin PublicOps
        /\ reqs'[r].uid # None)
       => LET u == reqs'[r].uid IN
          IF users[u] = None
            THEN reqs'[r].pc = "done" /\ reqs'[r].code = 401
          ELSE IF users[u] \notin RouteRoles(reqs[r].op)
            THEN reqs'[r].pc = "done" /\ reqs'[r].code = 403
          ELSE reqs'[r].role = users[u] /\ reqs'[r].code \notin {401, 403}]_vars

\* A token issued with role patient names an account whose stored role is now
\* secretary, and its deleteAppointment has passed the route (answered 404).
C29_Witness ==
  \E r \in Slots :
    /\ reqs[r].op = "deleteAppointment" /\ reqs[r].uid = "uPat1"
    /\ users["uPat1"] = "secretary"
    /\ \A k \in tokens : k.id = "uPat1" => k.role = "patient"
    /\ \E k \in tokens : k.id = "uPat1"
    /\ reqs[r].pc = "done" /\ reqs[r].code = 404 /\ reqs[r].role = "secretary"

\* C30: a login for an inactive account is answered 403 and issues no token;
\* a protected request, token refresh included, whose token names an inactive
\* account is refused and issues no token.
C30_InactiveCannotAct ==
  [][\A r \in Slots :
       /\ (/\ Acts(r) /\ reqs[r].pc = "login_match" /\ matchPassword(reqs[r].body.password)
           /\ reqs[r].user.status = "inactive")
          => reqs'[r].pc = "done" /\ reqs'[r].code = 403 /\ tokens' = tokens
       /\ (/\ Acts(r) /\ reqs[r].pc = "auth" /\ reqs[r].op \notin PublicOps
           /\ reqs'[r].uid # None /\ userStatus[reqs'[r].uid] = "inactive")
          => reqs'[r].pc = "done" /\ reqs'[r].code \in {401, 403}
       /\ (/\ Acts(r) /\ reqs[r].pc = "refresh_exec" /\ userStatus[reqs[r].uid] = "inactive")
          => tokens' = tokens]_vars

====
